---- MODULE Spec2Model ----
(***************************************************************************)
(* Three-statement projection pipeline of the financial modelling engine:  *)
(* assumption validation, scenario transform, income statement projector,  *)
(* working capital calculator, cash flow composer and balance sheet roller.*)
(*                                                                         *)
(* Numbers.  The program computes in Python floats.  A number is modelled  *)
(* as a reduced fraction [n, d]; every arithmetic operation of the source  *)
(* is the exact rational operation followed by Rnd, the rounding of the    *)
(* result to the float's significand.  The variable prec is the width of   *)
(* that significand in bits; prec = 0 stands for ideal real arithmetic     *)
(* (no rounding), the reading under which the specification states its     *)
(* exact equalities.  Spec runs the pipeline with prec = 0, SpecFP with a  *)
(* finite significand of MantBits bits.                                    *)
(***************************************************************************)
EXTENDS Integers, Sequences, FiniteSets, TLC

VARIABLES prec, raw_assumptions, assumptions, scenario_name, historical_data,
          periods, prior_period_revenue, pc, error, scenario_assumptions, income_statements,
          working_capital_list, working_capital_changes,
          cash_flow_statements, balance_sheets,
          via_loader, prev_scenario, call, ret,
          runs, diagnostics, outputs, progress, scenario_tag

vars == <<prec, raw_assumptions, assumptions, scenario_name, historical_data,
          periods, prior_period_revenue, pc, error, scenario_assumptions, income_statements,
          working_capital_list, working_capital_changes,
          cash_flow_statements, balance_sheets,
          via_loader, prev_scenario, call, ret,
          runs, diagnostics, outputs, progress, scenario_tag>>

\* the state of the concurrent runs, of the driver and of the ticker tester,
\* and the spelling of the scenario name handed to the constructor
apart == <<runs, diagnostics, outputs, progress, scenario_tag>>

\* ------------------------------------------------------------------ bounds
MaxPeriods == 3
MaxYear == 2024
MaxTickers == 2
MantBits == 8

\* ------------------------------------------------------- rational numbers
IAbs(i) == IF i < 0 THEN -i ELSE i

RECURSIVE GCD(_, _)
GCD(a, b) == IF b = 0 THEN a ELSE GCD(b, a % b)

RECURSIVE Pow2(_)
Pow2(k) == IF k <= 0 THEN 1 ELSE 2 * Pow2(k - 1)

Q(n, d) ==
    LET s == IF d < 0 THEN -1 ELSE 1
        g == GCD(IAbs(n), IAbs(d))
    IN  IF n = 0 THEN [n |-> 0, d |-> 1]
        ELSE [n |-> s * (n \div g), d |-> IAbs(d) \div g]

Zero == Q(0, 1)
One == Q(1, 1)

RNeg(a) == [n |-> -a.n, d |-> a.d]
RAbs(a) == [n |-> IAbs(a.n), d |-> a.d]
RAdd(a, b) ==
    LET g == GCD(a.d, b.d)
        l == (a.d \div g) * b.d
    IN  Q(a.n * (l \div a.d) + b.n * (l \div b.d), l)
RSub(a, b) == RAdd(a, RNeg(b))
RMul(a, b) ==
    IF a.n = 0 \/ b.n = 0 THEN Zero
    ELSE LET g1 == GCD(IAbs(a.n), b.d)
             g2 == GCD(IAbs(b.n), a.d)
         IN  Q((a.n \div g1) * (b.n \div g2), (a.d \div g2) * (b.d \div g1))
RDiv(a, b) == RMul(a, Q(b.d, b.n))
RLt(a, b) == RSub(a, b).n < 0
RLe(a, b) == RSub(a, b).n <= 0
RMin(a, b) == IF RLe(a, b) THEN a ELSE b

\* ---------------------------------------------------------- float rounding
\* largest e >= 0 with d * 2^e <= a   (a >= d > 0)
RECURSIVE ExpUp(_, _)
ExpUp(a, d) == IF 2 * d <= a THEN 1 + ExpUp(a, 2 * d) ELSE 0

\* smallest k > 0 with a * 2^k >= d   (0 < a < d)
RECURSIVE ExpDown(_, _)
ExpDown(a, d) == IF 2 * a >= d THEN 1 ELSE 1 + ExpDown(2 * a, d)

\* num / den rounded to the nearest integer, ties to even
RoundHalfEven(num, den) ==
    LET q == num \div den
        r == num % den
    IN  IF 2 * r < den THEN q
        ELSE IF 2 * r > den THEN q + 1
        ELSE IF q % 2 = 0 THEN q ELSE q + 1

Sgn(i) == IF i < 0 THEN -1 ELSE 1

\* e with 2^e <= a/d < 2^(e+1)   (a, d > 0)
Exponent(a, d) == IF a >= d THEN ExpUp(a, d) ELSE -ExpDown(a, d)

\* sg * a/d rounded to a multiple of 2^s
RoundAt(sg, a, d, s) ==
    IF s >= 0 THEN Q(sg * RoundHalfEven(a, d * Pow2(s)) * Pow2(s), 1)
    ELSE Q(sg * RoundHalfEven(a * Pow2(-s), d), Pow2(-s))

\* x rounded to p significant bits (round to nearest, ties to even);
\* p = 0 is ideal arithmetic
Rnd(p, x) ==
    IF p = 0 \/ x.n = 0 THEN x
    ELSE RoundAt(Sgn(x.n), IAbs(x.n), x.d, Exponent(IAbs(x.n), x.d) - (p - 1))

\* the float operations of the source
Lit(n, d) == Rnd(prec, Q(n, d))
FAdd(a, b) == Rnd(prec, RAdd(a, b))
FSub(a, b) == Rnd(prec, RSub(a, b))
FMul(a, b) == Rnd(prec, RMul(a, b))
FDiv(a, b) == Rnd(prec, RDiv(a, b))

\* ------------------------------------------------------------ Option values
None == <<>>
Some(x) == <<x>>
IsNone(o) == o = <<>>
Val(o) == o[1]

\* ------------------------------------------------------- local assignments
\* the element of a one-element set
Only(S) == CHOOSE x \in S : TRUE

\* an assignment  name = e  followed by the rest of the function body:
\* With(e, LAMBDA name : rest) is rest with name bound to the value of e,
\* computed once however often rest reads it
With(e, rest(_)) == Only({rest(v) : v \in {e}})

\* ------------------------------------------------------- assumption loader
REQUIRED_ASSUMPTIONS ==
    {"revenue_growth", "gross_margin", "opex_ratio", "dso", "dio", "dpo",
     "capex_ratio", "depreciation_rate", "tax_rate", "interest_rate"}

\* json.load: every decimal of the file becomes the nearest float
load_json(raw) == [k \in DOMAIN raw |-> Rnd(prec, raw[k])]

\* AssumptionLoader._validate: TRUE iff no ValueError is raised
validate(a) ==
    /\ REQUIRED_ASSUMPTIONS \subseteq DOMAIN a
    /\ \A key \in REQUIRED_ASSUMPTIONS :
          LET value == a[key] IN
          /\ ~ ( /\ key \in {"revenue_growth", "gross_margin", "opex_ratio", "tax_rate"}
                 /\ ~ (RLe(Q(-1, 1), value) /\ RLe(value, One))
                 /\ key = "revenue_growth"
                 /\ RLt(value, Q(-1, 2)) )
          /\ ~ (key \in {"dso", "dio", "dpo"} /\ RLt(value, Zero))
          /\ ~ (key = "depreciation_rate" /\ ~ (RLe(Zero, value) /\ RLe(value, One)))

\* ------------------------------------------------------ scenario transform
\* variant: bear forces the decline whenever the halved growth is >= 0
get_scenario_assumptions_floor0(base, name) ==
    IF name = "bull" THEN
        [base EXCEPT !["revenue_growth"] = FMul(@, Lit(3, 2)),
                     !["gross_margin"] = RMin(FMul(@, Lit(11, 10)), Lit(9, 10)),
                     !["opex_ratio"] = FMul(@, Lit(19, 20))]
    ELSE IF name = "bear" THEN
        LET halved == FMul(base["revenue_growth"], Lit(1, 2)) IN
        [base EXCEPT !["revenue_growth"] =
                         IF RLe(Zero, halved) THEN Lit(-1, 10) ELSE halved,
                     !["gross_margin"] = FMul(@, Lit(4, 5)),
                     !["opex_ratio"] = FMul(@, Lit(11, 10)),
                     !["dso"] = FMul(@, Lit(6, 5)),
                     !["dpo"] = FMul(@, Lit(9, 10))]
    ELSE base

\* variant: bear stretches all three working-capital day counts
get_scenario_assumptions_dio(base, name) ==
    IF name = "bull" THEN
        [base EXCEPT !["revenue_growth"] = FMul(@, Lit(3, 2)),
                     !["gross_margin"] = RMin(FMul(@, Lit(11, 10)), Lit(9, 10)),
                     !["opex_ratio"] = FMul(@, Lit(19, 20))]
    ELSE IF name = "bear" THEN
        LET halved == FMul(base["revenue_growth"], Lit(1, 2)) IN
        [base EXCEPT !["revenue_growth"] =
                         IF RLt(Zero, halved) THEN Lit(-1, 10) ELSE halved,
                     !["gross_margin"] = FMul(@, Lit(4, 5)),
                     !["opex_ratio"] = FMul(@, Lit(11, 10)),
                     !["dso"] = FMul(@, Lit(6, 5)),
                     !["dio"] = FMul(@, Lit(6, 5)),
                     !["dpo"] = FMul(@, Lit(9, 10))]
    ELSE base

\* the writes of _get_scenario_assumptions (lines 141-158), applied to the
\* dictionary they are made on
get_scenario_assumptions(base, name) ==
    IF name = "bull" THEN
        [base EXCEPT !["revenue_growth"] = FMul(@, Lit(3, 2)),
                     !["gross_margin"] = RMin(FMul(@, Lit(11, 10)), Lit(9, 10)),
                     !["opex_ratio"] = FMul(@, Lit(19, 20))]
    ELSE IF name = "bear" THEN
        LET halved == FMul(base["revenue_growth"], Lit(1, 2)) IN
        [base EXCEPT !["revenue_growth"] =
                         IF RLt(Zero, halved) THEN Lit(-1, 10) ELSE halved,
                     !["gross_margin"] = FMul(@, Lit(4, 5)),
                     !["opex_ratio"] = FMul(@, Lit(11, 10)),
                     !["dso"] = FMul(@, Lit(6, 5)),
                     !["dpo"] = FMul(@, Lit(9, 10))]
    ELSE base

\* the keys the writes of a scenario read; a missing one is a KeyError
scenario_keys(name) ==
    IF name = "bull" THEN {"revenue_growth", "gross_margin", "opex_ratio"}
    ELSE IF name = "bear"
    THEN {"revenue_growth", "gross_margin", "opex_ratio", "dso", "dpo"}
    ELSE {}

\* variant: the writes are made on self.base_assumptions itself
ScenarioEngine_get_scenario_assumptions_nocopy(base_assumptions, name) ==
    IF ~ (scenario_keys(name) \subseteq DOMAIN base_assumptions)
    THEN [err |-> "KeyError", base_assumptions |-> base_assumptions, out |-> None]
    ELSE [err |-> "none",
          base_assumptions |-> get_scenario_assumptions(base_assumptions, name),
          out |-> Some(get_scenario_assumptions(base_assumptions, name))]

\* ScenarioEngine._get_scenario_assumptions: the writes go to the copy taken
\* at line 139; [err, base_assumptions after the call, returned dictionary]
ScenarioEngine_get_scenario_assumptions(base_assumptions, name) ==
    IF ~ (scenario_keys(name) \subseteq DOMAIN base_assumptions)
    THEN [err |-> "KeyError", base_assumptions |-> base_assumptions, out |-> None]
    ELSE [err |-> "none",
          base_assumptions |-> base_assumptions,
          out |-> Some(get_scenario_assumptions(base_assumptions, name))]

\* ----------------------------------------------------- historical statement
\* HistoricalStatement.get_value; the callers pass a period of the statement
\* and a line item of the loader's schema
RECURSIVE index_of(_, _, _)
index_of(seq, x, i) == IF seq[i] = x THEN i ELSE index_of(seq, x, i + 1)

get_value(stmt, line_item, period) ==
    stmt.data[line_item][index_of(stmt.periods, period, 1)]

Last(seq) == seq[Len(seq)]

\* the ratios _project_single_period reads; a missing one is a KeyError in
\* the first pass of the loop
IS_KEYS ==
    {"revenue_growth", "gross_margin", "opex_ratio", "depreciation_rate",
     "interest_rate", "tax_rate"}

\* variant: interest without the 10% debt-to-revenue factor
IS_project_single_period_noproxy(a, period, prior_revenue) ==
    With(FMul(prior_revenue, FAdd(One, a["revenue_growth"])), LAMBDA revenue :
    LET cogs == FMul(revenue, FSub(One, a["gross_margin"]))
        gross_profit == FSub(revenue, cogs)
        operating_expenses == FMul(revenue, a["opex_ratio"])
        ebitda == FSub(gross_profit, operating_expenses)
        depreciation == FMul(revenue, a["depreciation_rate"])
    IN
    With(FSub(ebitda, depreciation), LAMBDA ebit :
    LET interest_expense == FMul(revenue, a["interest_rate"])
    IN
    With(FSub(ebit, interest_expense), LAMBDA ebt :
    LET tax_expense == FMul(ebt, a["tax_rate"])
        net_income == FSub(ebt, tax_expense)
    IN  [period |-> period, revenue |-> revenue, cogs |-> cogs,
         gross_profit |-> gross_profit,
         operating_expenses |-> operating_expenses, ebitda |-> ebitda,
         depreciation |-> depreciation, ebit |-> ebit,
         interest_expense |-> interest_expense, ebt |-> ebt,
         tax_expense |-> tax_expense, net_income |-> net_income])))

\* ------------------------------------------------ income statement projector
IS_project_single_period(a, period, prior_revenue) ==
    With(FMul(prior_revenue, FAdd(One, a["revenue_growth"])), LAMBDA revenue :
    LET cogs == FMul(revenue, FSub(One, a["gross_margin"]))
        gross_profit == FSub(revenue, cogs)
        operating_expenses == FMul(revenue, a["opex_ratio"])
        ebitda == FSub(gross_profit, operating_expenses)
        depreciation == FMul(revenue, a["depreciation_rate"])
    IN
    With(FSub(ebitda, depreciation), LAMBDA ebit :
    LET interest_expense == FMul(FMul(revenue, a["interest_rate"]), Lit(1, 10))
    IN
    With(FSub(ebit, interest_expense), LAMBDA ebt :
    LET tax_expense == FMul(ebt, a["tax_rate"])
        net_income == FSub(ebt, tax_expense)
    IN  [period |-> period, revenue |-> revenue, cogs |-> cogs,
         gross_profit |-> gross_profit,
         operating_expenses |-> operating_expenses, ebitda |-> ebitda,
         depreciation |-> depreciation, ebit |-> ebit,
         interest_expense |-> interest_expense, ebt |-> ebt,
         tax_expense |-> tax_expense, net_income |-> net_income])))

\* variant: current_revenue is not advanced to the new statement's revenue
RECURSIVE IS_loop_stale(_, _, _, _)
IS_loop_stale(a, ps, current_revenue, projected_statements) ==
    IF ps = <<>> THEN projected_statements
    ELSE With(IS_project_single_period(a, Head(ps), current_revenue),
              LAMBDA statement :
                  IS_loop_stale(a, Tail(ps), current_revenue,
                                Append(projected_statements, statement)))

\* the loop of IncomeStatementEngine.project
RECURSIVE IS_loop(_, _, _, _)
IS_loop(a, ps, current_revenue, projected_statements) ==
    IF ps = <<>> THEN projected_statements
    ELSE With(IS_project_single_period(a, Head(ps), current_revenue),
              LAMBDA statement :
                  IS_loop(a, Tail(ps), statement.revenue,
                          Append(projected_statements, statement)))

\* variant: starting revenue tested with < instead of <=
IS_project_strict(a, hist, ps, prior_revenue_arg) ==
    IF ps = <<>> THEN [err |-> "ValueError", out |-> <<>>]
    ELSE IF IsNone(prior_revenue_arg) /\ IsNone(hist.income_statement)
    THEN [err |-> "ValueError", out |-> <<>>]
    ELSE IF IsNone(prior_revenue_arg) /\ Val(hist.income_statement).periods = <<>>
    THEN [err |-> "ValueError", out |-> <<>>]
    ELSE LET hist_is == Val(hist.income_statement)
             start == IF IsNone(prior_revenue_arg)
                      THEN get_value(hist_is, "Revenue", Last(hist_is.periods))
                      ELSE Val(prior_revenue_arg)
         IN  IF RLt(start, Zero) THEN [err |-> "ValueError", out |-> <<>>]
             ELSE IF ~ (IS_KEYS \subseteq DOMAIN a)
             THEN [err |-> "KeyError", out |-> <<>>]
             ELSE [err |-> "none", out |-> IS_loop(a, ps, start, <<>>)]

\* IncomeStatementEngine.project: [err, out]
IS_project(a, hist, ps, prior_revenue_arg) ==
    IF ps = <<>> THEN [err |-> "ValueError", out |-> <<>>]
    ELSE IF IsNone(prior_revenue_arg) /\ IsNone(hist.income_statement)
    THEN [err |-> "ValueError", out |-> <<>>]
    ELSE IF IsNone(prior_revenue_arg) /\ Val(hist.income_statement).periods = <<>>
    THEN [err |-> "ValueError", out |-> <<>>]
    ELSE LET hist_is == Val(hist.income_statement)
             start == IF IsNone(prior_revenue_arg)
                      THEN get_value(hist_is, "Revenue", Last(hist_is.periods))
                      ELSE Val(prior_revenue_arg)
         IN  IF RLe(start, Zero) THEN [err |-> "ValueError", out |-> <<>>]
             ELSE IF ~ (IS_KEYS \subseteq DOMAIN a)
             THEN [err |-> "KeyError", out |-> <<>>]
             ELSE [err |-> "none", out |-> IS_loop(a, ps, start, <<>>)]

\* ------------------------------------------------ working capital calculator
\* variant: a 360-day year
WC_calculate_single_period_360(a, period, revenue, cogs) ==
    [period |-> period,
     accounts_receivable |-> FMul(revenue, FDiv(a["dso"], Lit(360, 1))),
     inventory |-> FMul(cogs, FDiv(a["dio"], Lit(360, 1))),
     accounts_payable |-> FMul(cogs, FDiv(a["dpo"], Lit(360, 1)))]

WC_calculate_single_period(a, period, revenue, cogs) ==
    [period |-> period,
     accounts_receivable |-> FMul(revenue, FDiv(a["dso"], Lit(365, 1))),
     inventory |-> FMul(cogs, FDiv(a["dio"], Lit(365, 1))),
     accounts_payable |-> FMul(cogs, FDiv(a["dpo"], Lit(365, 1)))]

\* the ratios _calculate_single_period reads
WC_KEYS == {"dso", "dio", "dpo"}

Min(i, j) == IF i <= j THEN i ELSE j

\* variant: no length check, the lists are walked as far as the shortest goes
WC_calculate_unchecked(a, ps, revenues, cogs_list) ==
    IF ps = <<>> THEN [err |-> "ValueError", out |-> <<>>]
    ELSE IF ~ (WC_KEYS \subseteq DOMAIN a) THEN [err |-> "KeyError", out |-> <<>>]
    ELSE [err |-> "none",
          out |-> [i \in 1..Min(Len(ps), Min(Len(revenues), Len(cogs_list))) |->
                     WC_calculate_single_period(a, ps[i], revenues[i], cogs_list[i])]]

\* WorkingCapitalEngine.calculate: [err, out]
WC_calculate(a, ps, revenues, cogs_list) ==
    IF Len(ps) # Len(revenues) \/ Len(ps) # Len(cogs_list)
    THEN [err |-> "ValueError", out |-> <<>>]
    ELSE IF ps = <<>> THEN [err |-> "ValueError", out |-> <<>>]
    ELSE IF ~ (WC_KEYS \subseteq DOMAIN a) THEN [err |-> "KeyError", out |-> <<>>]
    ELSE [err |-> "none",
          out |-> [i \in 1..Len(ps) |->
                     WC_calculate_single_period(a, ps[i], revenues[i], cogs_list[i])]]

\* variant: the first period's deltas measured from a zero opening balance
calculate_changes_from_zero(wcl) ==
    [i \in 1..Len(wcl) |->
        IF i = 1
        THEN [period |-> wcl[i].period,
              change_in_ar |-> FSub(wcl[i].accounts_receivable, Lit(0, 1)),
              change_in_inventory |-> FSub(wcl[i].inventory, Lit(0, 1)),
              change_in_ap |-> FSub(wcl[i].accounts_payable, Lit(0, 1))]
        ELSE [period |-> wcl[i].period,
              change_in_ar |->
                  FSub(wcl[i].accounts_receivable, wcl[i - 1].accounts_receivable),
              change_in_inventory |-> FSub(wcl[i].inventory, wcl[i - 1].inventory),
              change_in_ap |->
                  FSub(wcl[i].accounts_payable, wcl[i - 1].accounts_payable)]]

\* WorkingCapitalEngine.calculate_changes
calculate_changes(wcl) ==
    [i \in 1..Len(wcl) |->
        IF i = 1
        THEN [period |-> wcl[i].period, change_in_ar |-> Lit(0, 1),
              change_in_inventory |-> Lit(0, 1), change_in_ap |-> Lit(0, 1)]
        ELSE [period |-> wcl[i].period,
              change_in_ar |->
                  FSub(wcl[i].accounts_receivable, wcl[i - 1].accounts_receivable),
              change_in_inventory |-> FSub(wcl[i].inventory, wcl[i - 1].inventory),
              change_in_ap |->
                  FSub(wcl[i].accounts_payable, wcl[i - 1].accounts_payable)]]

\* variant: net income taken before tax
CF_generate_single_period_pretax(a, income_stmt, wc_changes) ==
    LET net_income == income_stmt.ebt
        depreciation == income_stmt.depreciation
        change_in_ar == RNeg(wc_changes.change_in_ar)
        change_in_inventory == RNeg(wc_changes.change_in_inventory)
        change_in_ap == wc_changes.change_in_ap
        operating_cash_flow ==
            FAdd(FAdd(FAdd(FAdd(net_income, depreciation), change_in_ar),
                      change_in_inventory), change_in_ap)
        capex == FMul(RNeg(income_stmt.revenue), a["capex_ratio"])
        investing_cash_flow == capex
        debt_issuance == Lit(0, 1)
        debt_repayment == Lit(0, 1)
        financing_cash_flow == FAdd(debt_issuance, debt_repayment)
        net_change_in_cash ==
            FAdd(FAdd(operating_cash_flow, investing_cash_flow), financing_cash_flow)
    IN  [period |-> income_stmt.period, net_income |-> net_income,
         depreciation |-> depreciation, change_in_ar |-> change_in_ar,
         change_in_inventory |-> change_in_inventory,
         change_in_ap |-> change_in_ap,
         operating_cash_flow |-> operating_cash_flow, capex |-> capex,
         investing_cash_flow |-> investing_cash_flow,
         debt_issuance |-> debt_issuance, debt_repayment |-> debt_repayment,
         financing_cash_flow |-> financing_cash_flow,
         net_change_in_cash |-> net_change_in_cash]

\* variant: an increase in payables treated as a use of cash
CF_generate_single_period_apsign(a, income_stmt, wc_changes) ==
    LET net_income == income_stmt.net_income
        depreciation == income_stmt.depreciation
        change_in_ar == RNeg(wc_changes.change_in_ar)
        change_in_inventory == RNeg(wc_changes.change_in_inventory)
        change_in_ap == RNeg(wc_changes.change_in_ap)
        operating_cash_flow ==
            FAdd(FAdd(FAdd(FAdd(net_income, depreciation), change_in_ar),
                      change_in_inventory), change_in_ap)
        capex == FMul(RNeg(income_stmt.revenue), a["capex_ratio"])
        investing_cash_flow == capex
        debt_issuance == Lit(0, 1)
        debt_repayment == Lit(0, 1)
        financing_cash_flow == FAdd(debt_issuance, debt_repayment)
        net_change_in_cash ==
            FAdd(FAdd(operating_cash_flow, investing_cash_flow), financing_cash_flow)
    IN  [period |-> income_stmt.period, net_income |-> net_income,
         depreciation |-> depreciation, change_in_ar |-> change_in_ar,
         change_in_inventory |-> change_in_inventory,
         change_in_ap |-> change_in_ap,
         operating_cash_flow |-> operating_cash_flow, capex |-> capex,
         investing_cash_flow |-> investing_cash_flow,
         debt_issuance |-> debt_issuance, debt_repayment |-> debt_repayment,
         financing_cash_flow |-> financing_cash_flow,
         net_change_in_cash |-> net_change_in_cash]

\* variant: capex funded by debt issuance
CF_generate_single_period_debt(a, income_stmt, wc_changes) ==
    LET net_income == income_stmt.net_income
        depreciation == income_stmt.depreciation
        change_in_ar == RNeg(wc_changes.change_in_ar)
        change_in_inventory == RNeg(wc_changes.change_in_inventory)
        change_in_ap == wc_changes.change_in_ap
        operating_cash_flow ==
            FAdd(FAdd(FAdd(FAdd(net_income, depreciation), change_in_ar),
                      change_in_inventory), change_in_ap)
        capex == FMul(RNeg(income_stmt.revenue), a["capex_ratio"])
        investing_cash_flow == capex
        debt_issuance == RAbs(capex)
        debt_repayment == Lit(0, 1)
        financing_cash_flow == FAdd(debt_issuance, debt_repayment)
        net_change_in_cash ==
            FAdd(FAdd(operating_cash_flow, investing_cash_flow), financing_cash_flow)
    IN  [period |-> income_stmt.period, net_income |-> net_income,
         depreciation |-> depreciation, change_in_ar |-> change_in_ar,
         change_in_inventory |-> change_in_inventory,
         change_in_ap |-> change_in_ap,
         operating_cash_flow |-> operating_cash_flow, capex |-> capex,
         investing_cash_flow |-> investing_cash_flow,
         debt_issuance |-> debt_issuance, debt_repayment |-> debt_repayment,
         financing_cash_flow |-> financing_cash_flow,
         net_change_in_cash |-> net_change_in_cash]

\* ------------------------------------------------------- cash flow composer
CF_generate_single_period(a, income_stmt, wc_changes) ==
    LET net_income == income_stmt.net_income
        depreciation == income_stmt.depreciation
        change_in_ar == RNeg(wc_changes.change_in_ar)
        change_in_inventory == RNeg(wc_changes.change_in_inventory)
        change_in_ap == wc_changes.change_in_ap
        operating_cash_flow ==
            FAdd(FAdd(FAdd(FAdd(net_income, depreciation), change_in_ar),
                      change_in_inventory), change_in_ap)
        capex == FMul(RNeg(income_stmt.revenue), a["capex_ratio"])
        investing_cash_flow == capex
        debt_issuance == Lit(0, 1)
        debt_repayment == Lit(0, 1)
        financing_cash_flow == FAdd(debt_issuance, debt_repayment)
        net_change_in_cash ==
            FAdd(FAdd(operating_cash_flow, investing_cash_flow), financing_cash_flow)
    IN  [period |-> income_stmt.period, net_income |-> net_income,
         depreciation |-> depreciation, change_in_ar |-> change_in_ar,
         change_in_inventory |-> change_in_inventory,
         change_in_ap |-> change_in_ap,
         operating_cash_flow |-> operating_cash_flow, capex |-> capex,
         investing_cash_flow |-> investing_cash_flow,
         debt_issuance |-> debt_issuance, debt_repayment |-> debt_repayment,
         financing_cash_flow |-> financing_cash_flow,
         net_change_in_cash |-> net_change_in_cash]

\* variant: the statements are appended newest first
CF_generate_reversed(a, iss, changes, prior_period_cash) ==
    IF Len(iss) # Len(changes) THEN [err |-> "ValueError", out |-> <<>>]
    ELSE IF iss = <<>> THEN [err |-> "ValueError", out |-> <<>>]
    ELSE IF "capex_ratio" \notin DOMAIN a THEN [err |-> "KeyError", out |-> <<>>]
    ELSE [err |-> "none",
          out |-> [i \in 1..Len(iss) |->
                     CF_generate_single_period(a, iss[Len(iss) + 1 - i],
                                               changes[Len(iss) + 1 - i])]]

\* CashFlowEngine.generate: [err, out]; prior_period_cash is accepted and
\* never read by the loop
CF_generate(a, iss, changes, prior_period_cash) ==
    IF Len(iss) # Len(changes) THEN [err |-> "ValueError", out |-> <<>>]
    ELSE IF iss = <<>> THEN [err |-> "ValueError", out |-> <<>>]
    ELSE IF "capex_ratio" \notin DOMAIN a THEN [err |-> "KeyError", out |-> <<>>]
    ELSE [err |-> "none",
          out |-> [i \in 1..Len(iss) |->
                     CF_generate_single_period(a, iss[i], changes[i])]]

\* ------------------------------------------------------ balance sheet roller
\* variant: the projection lets through what the validator reports
default_tolerance_loose == Lit(100, 1)

\* the default tolerance of BalanceSheet.check_balance
default_tolerance == Lit(1, 100)
\* variant: the difference compared without abs()
check_balance_signed(bs, tolerance) ==
    RLe(FSub(bs.total_assets, bs.total_liabilities_and_equity), tolerance)


check_balance(bs, tolerance) ==
    RLe(RAbs(FSub(bs.total_assets, bs.total_liabilities_and_equity)), tolerance)

\* BalanceSheetEngine.get_starting_balance_sheet: [err, out]
get_starting_balance_sheet(hist) ==
    IF IsNone(hist) \/ IsNone(hist.balance_sheet)
    THEN [err |-> "ValueError", out |-> None]
    ELSE IF Val(hist.balance_sheet).periods = <<>>
    THEN [err |-> "ValueError", out |-> None]
    ELSE LET hist_bs == Val(hist.balance_sheet)
             last_period == Last(hist_bs.periods)
             cash == get_value(hist_bs, "Cash", last_period)
             ar == get_value(hist_bs, "Accounts Receivable", last_period)
             inventory == get_value(hist_bs, "Inventory", last_period)
             ppe == get_value(hist_bs, "PP&E", last_period)
             ap == get_value(hist_bs, "Accounts Payable", last_period)
             debt == get_value(hist_bs, "Debt", last_period)
             equity == get_value(hist_bs, "Equity", last_period)
             retained_earnings == get_value(hist_bs, "Retained Earnings", last_period)
             total_liabilities == FAdd(ap, debt)
             total_equity == FAdd(equity, retained_earnings)
         IN  [err |-> "none",
              out |-> Some(
                [period |-> last_period, cash |-> cash,
                 accounts_receivable |-> ar, inventory |-> inventory,
                 ppe |-> ppe,
                 total_assets |-> FAdd(FAdd(FAdd(cash, ar), inventory), ppe),
                 accounts_payable |-> ap, debt |-> debt,
                 total_liabilities |-> total_liabilities, equity |-> equity,
                 retained_earnings |-> retained_earnings,
                 total_equity |-> total_equity,
                 total_liabilities_and_equity |->
                     FAdd(total_liabilities, total_equity)])]
\* variant: capex added to PP&E with its cash-flow sign
BS_project_single_period_signed(period, income_stmt, working_capital, cash_flow, prior_bs) ==
    With(FAdd(prior_bs.cash, cash_flow.net_change_in_cash), LAMBDA cash0 :
    LET accounts_receivable == working_capital.accounts_receivable
        inventory == working_capital.inventory
        capex == cash_flow.capex
        depreciation == income_stmt.depreciation
    IN
    With(FSub(FAdd(prior_bs.ppe, capex), depreciation), LAMBDA ppe :
    LET total_assets0 == FAdd(FAdd(FAdd(cash0, accounts_receivable), inventory), ppe)
        accounts_payable == working_capital.accounts_payable
        debt == FSub(FAdd(prior_bs.debt, cash_flow.debt_issuance),
                     cash_flow.debt_repayment)
        total_liabilities == FAdd(accounts_payable, debt)
        equity == prior_bs.equity
        retained_earnings == FAdd(prior_bs.retained_earnings, income_stmt.net_income)
        total_equity == FAdd(equity, retained_earnings)
    IN
    With(FAdd(total_liabilities, total_equity), LAMBDA total_liabilities_and_equity :
    LET imbalance == FSub(total_assets0, total_liabilities_and_equity)
        cash == FSub(cash0, imbalance)
        total_assets == FAdd(FAdd(FAdd(cash, accounts_receivable), inventory), ppe)
    IN  [period |-> period, cash |-> cash,
         accounts_receivable |-> accounts_receivable, inventory |-> inventory,
         ppe |-> ppe, total_assets |-> total_assets,
         accounts_payable |-> accounts_payable, debt |-> debt,
         total_liabilities |-> total_liabilities, equity |-> equity,
         retained_earnings |-> retained_earnings, total_equity |-> total_equity,
         total_liabilities_and_equity |-> total_liabilities_and_equity])))


BS_project_single_period(period, income_stmt, working_capital, cash_flow, prior_bs) ==
    With(FAdd(prior_bs.cash, cash_flow.net_change_in_cash), LAMBDA cash0 :
    LET accounts_receivable == working_capital.accounts_receivable
        inventory == working_capital.inventory
        capex == RAbs(cash_flow.capex)
        depreciation == income_stmt.depreciation
    IN
    With(FSub(FAdd(prior_bs.ppe, capex), depreciation), LAMBDA ppe :
    LET total_assets0 == FAdd(FAdd(FAdd(cash0, accounts_receivable), inventory), ppe)
        accounts_payable == working_capital.accounts_payable
        debt == FSub(FAdd(prior_bs.debt, cash_flow.debt_issuance),
                     cash_flow.debt_repayment)
        total_liabilities == FAdd(accounts_payable, debt)
        equity == prior_bs.equity
        retained_earnings == FAdd(prior_bs.retained_earnings, income_stmt.net_income)
        total_equity == FAdd(equity, retained_earnings)
    IN
    With(FAdd(total_liabilities, total_equity), LAMBDA total_liabilities_and_equity :
    LET imbalance == FSub(total_assets0, total_liabilities_and_equity)
        cash == FSub(cash0, imbalance)
        total_assets == FAdd(FAdd(FAdd(cash, accounts_receivable), inventory), ppe)
    IN  [period |-> period, cash |-> cash,
         accounts_receivable |-> accounts_receivable, inventory |-> inventory,
         ppe |-> ppe, total_assets |-> total_assets,
         accounts_payable |-> accounts_payable, debt |-> debt,
         total_liabilities |-> total_liabilities, equity |-> equity,
         retained_earnings |-> retained_earnings, total_equity |-> total_equity,
         total_liabilities_and_equity |-> total_liabilities_and_equity])))

\* the loop of BalanceSheetEngine.project: stops at the first sheet that
\* fails check_balance
RECURSIVE BS_loop(_, _, _, _, _, _, _)
BS_loop(ps, iss, wcl, cfs, i, current_bs, balance_sheets_acc) ==
    IF i > Len(ps) THEN [err |-> "none", out |-> balance_sheets_acc]
    ELSE With(BS_project_single_period(ps[i], iss[i], wcl[i], cfs[i], current_bs),
              LAMBDA new_bs :
                  IF ~ check_balance(new_bs, default_tolerance)
                  THEN [err |-> "RuntimeError", out |-> <<>>]
                  ELSE BS_loop(ps, iss, wcl, cfs, i + 1, new_bs,
                               Append(balance_sheets_acc, new_bs)))

\* variant: the historical balance sheet is consulted whether or not a prior
\* balance sheet was supplied
BS_project_always_consults(hist, ps, iss, wcl, cfs, prior_period_bs) ==
    IF Len(iss) # Len(ps) \/ Len(wcl) # Len(ps) \/ Len(cfs) # Len(ps)
    THEN [err |-> "ValueError", out |-> <<>>]
    ELSE IF ps = <<>> THEN [err |-> "ValueError", out |-> <<>>]
    ELSE With(IF get_starting_balance_sheet(hist).err # "none"
              THEN get_starting_balance_sheet(hist)
              ELSE IF IsNone(prior_period_bs)
              THEN get_starting_balance_sheet(hist)
              ELSE [err |-> "none", out |-> prior_period_bs],
              LAMBDA start :
                  IF start.err # "none" THEN [err |-> start.err, out |-> <<>>]
                  ELSE BS_loop(ps, iss, wcl, cfs, 1, Val(start.out), <<>>))

\* BalanceSheetEngine.project: [err, out]
BS_project(hist, ps, iss, wcl, cfs, prior_period_bs) ==
    IF Len(iss) # Len(ps) \/ Len(wcl) # Len(ps) \/ Len(cfs) # Len(ps)
    THEN [err |-> "ValueError", out |-> <<>>]
    ELSE IF ps = <<>> THEN [err |-> "ValueError", out |-> <<>>]
    ELSE With(IF IsNone(prior_period_bs)
              THEN get_starting_balance_sheet(hist)
              ELSE [err |-> "none", out |-> prior_period_bs],
              LAMBDA start :
                  IF start.err # "none" THEN [err |-> start.err, out |-> <<>>]
                  ELSE BS_loop(ps, iss, wcl, cfs, 1, Val(start.out), <<>>))

\* ------------------------------------------------------------ scenario run
\* the pieces of ScenarioEngine.run between the engine calls
revenues_of(iss) == [i \in 1..Len(iss) |-> iss[i].revenue]
cogs_of(iss) == [i \in 1..Len(iss) |-> iss[i].cogs]

\* lines 101-104
prior_cash_of(hist) ==
    IF ~ IsNone(hist.balance_sheet) /\ Val(hist.balance_sheet).periods # <<>>
    THEN get_value(Val(hist.balance_sheet), "Cash", Last(Val(hist.balance_sheet).periods))
    ELSE Lit(0, 1)

\* lines 113-123: [err, out]
run_balance_sheets(hist, ps, iss, wcl, cfs) ==
    IF IsNone(hist.balance_sheet)
    THEN BS_project(hist, ps, iss, wcl, cfs, None)
    ELSE With(get_starting_balance_sheet(hist), LAMBDA start :
              IF start.err # "none" THEN [err |-> start.err, out |-> <<>>]
              ELSE BS_project(hist, ps, iss, wcl, cfs, start.out))

\* lines 125-130: the ModelResults returned
ModelResults(ps, iss, bss, cfs) ==
    [periods |-> ps, income_statements |-> iss, balance_sheets |-> bss,
     cash_flow_statements |-> cfs]

\* ------------------------------------------------------ consistency validator
\* A float beyond the range of the fraction form is written m * 10^e: the
\* record of m carries the decimal exponent in e10.  Only cash balances and
\* the cash floor are that large, and the validator only compares them.
Sci(m, e) == [n |-> m, d |-> 1, e10 |-> e]
E10(x) == IF "e10" \in DOMAIN x THEN x.e10 ELSE 0

RECURSIVE Pow10(_)
Pow10(k) == IF k <= 0 THEN 1 ELSE 10 * Pow10(k - 1)

\* m * 10^r is within the integers of the fraction form
Fits(m, r) == r <= 9 /\ IAbs(m) <= 2147483647 \div Pow10(r)

\* x / 10^k as a fraction (k <= E10(x), the product fits)
Scaled(x, k) == Q(x.n * Pow10(E10(x) - k), x.d)

\* a < b with both taken relative to 10^k, k the smaller exponent: a number
\* that does not fit is larger in magnitude than any that does
NumLtAt(a, b, k) ==
    IF ~ Fits(a.n, E10(a) - k) THEN a.n < 0
    ELSE IF ~ Fits(b.n, E10(b) - k) THEN b.n > 0
    ELSE RLt(Scaled(a, k), Scaled(b, k))

\* the float comparison a < b
NumLt(a, b) == NumLtAt(a, b, Min(E10(a), E10(b)))
\* abs()
NumAbs(x) == [x EXCEPT !.n = IAbs(@)]

NEGATIVE_CASH_THRESHOLD == Sci(-1, 10)
UNREALISTIC_MARGIN_THRESHOLD == Lit(-1, 2)
BALANCE_TOLERANCE == Lit(1, 100)

\* A diagnostic is [level, category, period, message], message naming the
\* message template; a report is the sequence of the diagnostics added.

\* variant: an imbalance is reported as a warning
balance_finding_warning(bs) ==
    IF ~ check_balance(bs, BALANCE_TOLERANCE)
    THEN <<[level |-> "warning", category |-> "Balance Sheet",
            period |-> bs.period, message |-> "does not balance"]>>
    ELSE <<>>

\* the body of the loop of _validate_balance_sheets: the diagnostics it adds
\* for one balance sheet
balance_finding(bs) ==
    IF ~ check_balance(bs, BALANCE_TOLERANCE)
    THEN <<[level |-> "error", category |-> "Balance Sheet",
            period |-> bs.period, message |-> "does not balance"]>>
    ELSE <<>>

\* ModelValidator._validate_balance_sheets, from the i-th balance sheet on
RECURSIVE validate_balance_sheets(_, _, _)
validate_balance_sheets(results, report, i) ==
    IF i > Len(results.balance_sheets) THEN report
    ELSE validate_balance_sheets(results,
                                 report \o balance_finding(results.balance_sheets[i]),
                                 i + 1)

\* lines 131-135; i counts from 1
starting_cash_negative(cash, i) ==
    /\ i = 1
    /\ NumLt(Q(1000000, 1), NumAbs(cash))
    /\ NumLt(cash, Q(-1000000, 1))

\* variant: the downgrade to a warning applies to every period
cash_finding_anyperiod(results, bs, i) ==
    IF NumLt(bs.cash, NEGATIVE_CASH_THRESHOLD)
    THEN IF results.income_statements # <<>>
            /\ RLe(results.income_statements[1].revenue, Zero)
         THEN <<[level |-> "error", category |-> "Cash Balance",
                 period |-> bs.period,
                 message |-> "critically negative, zero revenue"]>>
         ELSE IF NumLt(bs.cash, Q(-1000000, 1))
         THEN <<[level |-> "warning", category |-> "Cash Balance",
                 period |-> bs.period, message |-> "starting cash negative"]>>
         ELSE <<[level |-> "error", category |-> "Cash Balance",
                 period |-> bs.period, message |-> "critically negative"]>>
    ELSE IF NumLt(bs.cash, Zero)
    THEN <<[level |-> "warning", category |-> "Cash Balance",
            period |-> bs.period, message |-> "negative"]>>
    ELSE <<>>

\* the body of the loop of _validate_cash_balances: the diagnostics it adds
\* for the i-th balance sheet
cash_finding(results, bs, i) ==
    IF NumLt(bs.cash, NEGATIVE_CASH_THRESHOLD)
    THEN IF results.income_statements # <<>>
            /\ RLe(results.income_statements[1].revenue, Zero)
         THEN <<[level |-> "error", category |-> "Cash Balance",
                 period |-> bs.period,
                 message |-> "critically negative, zero revenue"]>>
         ELSE IF starting_cash_negative(bs.cash, i) /\ i = 1
         THEN <<[level |-> "warning", category |-> "Cash Balance",
                 period |-> bs.period, message |-> "starting cash negative"]>>
         ELSE <<[level |-> "error", category |-> "Cash Balance",
                 period |-> bs.period, message |-> "critically negative"]>>
    ELSE IF NumLt(bs.cash, Zero)
    THEN <<[level |-> "warning", category |-> "Cash Balance",
            period |-> bs.period, message |-> "negative"]>>
    ELSE <<>>

\* ModelValidator._validate_cash_balances, from the i-th balance sheet on
RECURSIVE validate_cash_balances(_, _, _)
validate_cash_balances(results, report, i) ==
    IF i > Len(results.balance_sheets) THEN report
    ELSE validate_cash_balances(
             results,
             report \o cash_finding(results, results.balance_sheets[i], i),
             i + 1)

gross_margin_pct(is_stmt) == FMul(FDiv(is_stmt.gross_profit, is_stmt.revenue), Lit(100, 1))
net_margin_pct(is_stmt) == FMul(FDiv(is_stmt.net_income, is_stmt.revenue), Lit(100, 1))

\* variant: the net margin is looked at only when the gross margin passed
margin_finding_elif(is_stmt) ==
    IF is_stmt.revenue = Zero THEN <<>>
    ELSE IF RLt(gross_margin_pct(is_stmt),
                FMul(UNREALISTIC_MARGIN_THRESHOLD, Lit(100, 1)))
    THEN <<[level |-> "warning", category |-> "Margin",
            period |-> is_stmt.period, message |-> "gross margin"]>>
    ELSE IF RLt(net_margin_pct(is_stmt), Lit(-100, 1))
    THEN <<[level |-> "error", category |-> "Margin",
            period |-> is_stmt.period, message |-> "net margin"]>>
    ELSE <<>>

\* the body of the loop of _validate_margins: the diagnostics it adds for
\* one income statement
margin_finding(is_stmt) ==
    IF is_stmt.revenue = Zero THEN <<>>
    ELSE (IF RLt(gross_margin_pct(is_stmt),
                 FMul(UNREALISTIC_MARGIN_THRESHOLD, Lit(100, 1)))
          THEN <<[level |-> "warning", category |-> "Margin",
                  period |-> is_stmt.period, message |-> "gross margin"]>>
          ELSE <<>>)
         \o
         (IF RLt(net_margin_pct(is_stmt), Lit(-100, 1))
          THEN <<[level |-> "error", category |-> "Margin",
                  period |-> is_stmt.period, message |-> "net margin"]>>
          ELSE <<>>)

\* ModelValidator._validate_margins, from the i-th income statement on
RECURSIVE validate_margins(_, _, _)
validate_margins(results, report, i) ==
    IF i > Len(results.income_statements) THEN report
    ELSE validate_margins(results,
                          report \o margin_finding(results.income_statements[i]),
                          i + 1)

\* the two checks of _validate_logical_consistency for one period
consistency_finding(period, is_stmt, cf) ==
    (IF RLt(Lit(1, 100), RAbs(FSub(is_stmt.net_income, cf.net_income)))
     THEN <<[level |-> "error", category |-> "Consistency", period |-> period,
             message |-> "net income mismatch"]>>
     ELSE <<>>)
    \o
    (IF RLt(Lit(1, 100), RAbs(FSub(is_stmt.depreciation, cf.depreciation)))
     THEN <<[level |-> "error", category |-> "Consistency", period |-> period,
             message |-> "depreciation mismatch"]>>
     ELSE <<>>)

\* ModelValidator._validate_logical_consistency, from the i-th period on:
\* [err, report]; an index past the end of a statement list is an IndexError
RECURSIVE validate_logical_consistency(_, _, _)
validate_logical_consistency(results, report, i) ==
    IF i > Len(results.periods) THEN [err |-> "none", report |-> report]
    ELSE IF \/ i > Len(results.income_statements)
            \/ i > Len(results.balance_sheets)
            \/ i > Len(results.cash_flow_statements)
    THEN [err |-> "IndexError", report |-> report]
    ELSE validate_logical_consistency(
             results,
             report \o consistency_finding(results.periods[i],
                                           results.income_statements[i],
                                           results.cash_flow_statements[i]),
             i + 1)

\* ModelValidator.validate_all: [err, report]; the report is returned only
\* when no pass raised
validate_all(results) ==
    validate_logical_consistency(
        results,
        validate_margins(
            results,
            validate_cash_balances(
                results,
                validate_balance_sheets(results, <<>>, 1),
                1),
            1),
        1)

\* DiagnosticsReport.has_errors, has_warnings
has_errors(report) == \E j \in 1..Len(report) : report[j].level = "error"
has_warnings(report) == \E j \in 1..Len(report) : report[j].level = "warning"

\* ------------------------------------------------------------------ inputs
Friendly ==
    [revenue_growth |-> Q(1, 5), gross_margin |-> Q(1, 2), opex_ratio |-> Q(1, 5),
     dso |-> Q(73, 1), dio |-> Q(73, 1), dpo |-> Q(73, 1),
     capex_ratio |-> Q(1, 10), depreciation_rate |-> Q(1, 10),
     tax_rate |-> Q(1, 4), interest_rate |-> Q(1, 10)]

\* the six income-statement ratios of the specification's end-to-end example
Example ==
    [revenue_growth |-> Q(1, 20), gross_margin |-> Q(2, 5), opex_ratio |-> Q(1, 5),
     dso |-> Q(73, 1), dio |-> Q(146, 1), dpo |-> Q(73, 1),
     capex_ratio |-> Q(1, 25), depreciation_rate |-> Q(1, 20),
     tax_rate |-> Q(1, 4), interest_rate |-> Q(3, 100)]

GrowthChoices == {Q(1, 5), Q(0, 1), Q(-1, 5), Q(-1, 1), Q(-2, 1)}
CapexChoices == {Q(1, 10), Q(-1, 10)}

\* a dictionary that lacks one of the ten ratios
Without(a, key) == [k \in DOMAIN a \ {key} |-> a[k]]

AssumptionChoices ==
    {Example}
    \cup {[Friendly EXCEPT !.revenue_growth = g, !.capex_ratio = c] :
             g \in GrowthChoices, c \in CapexChoices}
    \cup {[Friendly EXCEPT !.dso = Q(-1, 1)],
          [Friendly EXCEPT !.depreciation_rate = Q(2, 1)],
          [Friendly EXCEPT !.gross_margin = Q(9, 10)],
          Without(Friendly, "tax_rate")}

\* dictionaries a caller hands to ScenarioEngine without going through the
\* loader (via_loader = FALSE)
DirectChoices ==
    {[Friendly EXCEPT !.opex_ratio = Q(1, 4)]}
    \cup {Without(Friendly, key) : key \in {"gross_margin", "dpo", "capex_ratio"}}

ScenarioChoices == {"base", "bull", "bear"}

HistIS(p, revenue) ==
    [periods |-> <<-1, 0>>,
     data |-> ("Revenue" :> <<Rnd(p, Q(800, 1)), Rnd(p, revenue)>>)]

HistBS(p, cash, ar, inv, ppe, ap, debt, equity, re) ==
    [periods |-> <<-1, 0>>,
     data |-> ("Cash" :> <<Zero, Rnd(p, cash)>>
               @@ "Accounts Receivable" :> <<Zero, Rnd(p, ar)>>
               @@ "Inventory" :> <<Zero, Rnd(p, inv)>>
               @@ "PP&E" :> <<Zero, Rnd(p, ppe)>>
               @@ "Accounts Payable" :> <<Zero, Rnd(p, ap)>>
               @@ "Debt" :> <<Zero, Rnd(p, debt)>>
               @@ "Equity" :> <<Zero, Rnd(p, equity)>>
               @@ "Retained Earnings" :> <<Zero, Rnd(p, re)>>)]

Balanced(p) ==
    HistBS(p, Q(100, 1), Q(120, 1), Q(50, 1), Q(500, 1),
           Q(70, 1), Q(200, 1), Q(400, 1), Q(100, 1))
Unbalanced(p) ==
    HistBS(p, Q(100, 1), Q(0, 1), Q(0, 1), Q(500, 1),
           Q(0, 1), Q(200, 1), Q(400, 1), Q(50, 1))

HistoricalChoices(p) ==
    {[income_statement |-> Some(HistIS(p, Q(1000, 1))), balance_sheet |-> Some(Balanced(p))],
     [income_statement |-> Some(HistIS(p, Q(1000, 1))), balance_sheet |-> Some(Unbalanced(p))],
     [income_statement |-> Some(HistIS(p, Q(0, 1))), balance_sheet |-> Some(Balanced(p))],
     [income_statement |-> None, balance_sheet |-> Some(Balanced(p))],
     [income_statement |-> Some(HistIS(p, Q(1000, 1))), balance_sheet |-> None]}

\* the caller hands run any list of tags: in calendar order, out of order,
\* or with a tag repeated
PeriodChoices ==
    {[i \in 1..n |-> i] : n \in 0..MaxPeriods} \cup {<<2, 1>>, <<1, 1>>}

\* the optional argument of IncomeStatementEngine.project
OverrideChoices(p) == {None, Some(Rnd(p, Q(0, 1))), Some(Rnd(p, Q(500, 1)))}

\* ----------------------------------------------- inputs of the single calls
\* A finished run supplies well-formed arguments; the caller of a single
\* operation hands them over as they are, shortened, or altered.  call names
\* the operation and what the caller does to the arguments.
RefHistory ==
    [income_statement |-> Some(HistIS(0, Q(1000, 1))),
     balance_sheet |-> Some(Balanced(0))]
RefPeriods == [i \in 1..MaxPeriods |-> i]
RefAssumptions ==
    {Friendly, Example, [Friendly EXCEPT !.revenue_growth = Q(-1, 1)]}

Prefix(seq, n) == SubSeq(seq, 1, n)

\* alterations of a ModelResults r at period index k
OffBalance(r, k, delta) ==
    [r EXCEPT !.balance_sheets[k].total_assets = RAdd(@, delta)]
SetCash(r, k, c) == [r EXCEPT !.balance_sheets[k].cash = c]
SetGross(r, k) ==
    [r EXCEPT !.income_statements[k].gross_profit =
        IF r.income_statements[k].revenue = Zero THEN Q(-60, 1)
        ELSE RMul(r.income_statements[k].revenue, Q(-3, 5))]
NetLoss(r, k, ratio) ==
    IF r.income_statements[k].revenue = Zero THEN Q(-200, 1)
    ELSE RMul(r.income_statements[k].revenue, ratio)
SetNet(r, k, ratio) ==
    [r EXCEPT !.income_statements[k].net_income = NetLoss(r, k, ratio),
              !.cash_flow_statements[k].net_income = NetLoss(r, k, ratio)]
MismatchNetIncome(r, k) ==
    [r EXCEPT !.cash_flow_statements[k].net_income = RAdd(@, One)]
MismatchDepreciation(r, k) ==
    [r EXCEPT !.cash_flow_statements[k].depreciation = RAdd(@, One)]
DropLast(r, list) == [r EXCEPT ![list] = SubSeq(@, 1, Len(@) - 1)]

CashChoices ==
    {Sci(-2, 10), Sci(-1, 10), Q(-5000000, 1), Q(-500000, 1), Q(-50, 1), Zero}
DeltaChoices == {Q(5, 1), Q(-5, 1), Q(1, 100), Q(1, 50)}

StatementLists == {"income_statements", "balance_sheets", "cash_flow_statements"}

\* what the caller of validate_all does to the results of the reference run:
\* an alteration at period k, or the last entry of a statement list dropped
VariantChoices ==
    {[kind |-> "none", k |-> 1, x |-> Zero]}
    \cup {[kind |-> "off_balance", k |-> k, x |-> delta] :
             k \in 1..MaxPeriods, delta \in DeltaChoices}
    \cup {[kind |-> "cash", k |-> k, x |-> c] : k \in 1..MaxPeriods, c \in CashChoices}
    \cup {[kind |-> "net", k |-> k, x |-> ratio] :
             k \in 1..MaxPeriods, ratio \in {Q(-2, 1), Q(-1, 1)}}
    \cup {[kind |-> kind, k |-> k, x |-> Zero] :
             kind \in {"gross", "gross_and_net", "mismatch_net_income",
                       "mismatch_depreciation", "off_balance_and_cash", "all"},
             k \in 1..MaxPeriods}
    \cup {[kind |-> list, k |-> 1, x |-> Zero] : list \in StatementLists}

Alter(r, v) ==
    IF v.kind = "off_balance" THEN OffBalance(r, v.k, v.x)
    ELSE IF v.kind = "cash" THEN SetCash(r, v.k, v.x)
    ELSE IF v.kind = "net" THEN SetNet(r, v.k, v.x)
    ELSE IF v.kind = "gross" THEN SetGross(r, v.k)
    ELSE IF v.kind = "gross_and_net" THEN SetGross(SetNet(r, v.k, Q(-2, 1)), v.k)
    ELSE IF v.kind = "mismatch_net_income" THEN MismatchNetIncome(r, v.k)
    ELSE IF v.kind = "mismatch_depreciation" THEN MismatchDepreciation(r, v.k)
    ELSE IF v.kind = "off_balance_and_cash"
    THEN OffBalance(SetCash(r, v.k, Q(-50, 1)), v.k, Q(5, 1))
    ELSE IF v.kind = "all"
    THEN MismatchNetIncome(
             SetGross(SetNet(OffBalance(SetCash(r, v.k, Sci(-2, 10)), v.k, Q(5, 1)),
                             v.k, Q(-2, 1)), v.k), v.k)
    ELSE IF v.kind \in StatementLists THEN DropLast(r, v.kind)
    ELSE r

NoCall == [op |-> "none"]

\* the historical data a BalanceSheetEngine is built on: none at all, no
\* balance sheet, a balance sheet without periods, the reference history
NoBalanceSheet ==
    [income_statement |-> Some(HistIS(0, Q(1000, 1))), balance_sheet |-> None]
NoPeriods ==
    [income_statement |-> Some(HistIS(0, Q(1000, 1))),
     balance_sheet |-> Some([periods |-> <<>>, data |-> Balanced(0).data])]
StartingHistoryChoices == {None, NoBalanceSheet, NoPeriods, RefHistory}

StartingCalls ==
    {[op |-> "BalanceSheetEngine.get_starting_balance_sheet", history |-> h] :
        h \in StartingHistoryChoices}

\* project on full-length lists, with or without an explicit prior sheet
ProjectBSFromCalls ==
    {[op |-> "BalanceSheetEngine.project from", history |-> h, explicit |-> e] :
        h \in StartingHistoryChoices, e \in BOOLEAN}

\* project on the lists of the run, from the run's starting sheet with
\* another cash; generate with another prior_period_cash
PriorCashChoices == {Q(100, 1), Q(250, 1), Q(0, 1), Q(-40, 1), Q(100000, 1)}
ProjectBSCashCalls ==
    {[op |-> "BalanceSheetEngine.project cash", cash |-> c] : c \in PriorCashChoices}
GenerateCashCalls ==
    {[op |-> "CashFlowEngine.generate cash", prior_period_cash |-> c] :
        c \in PriorCashChoices}

ValidateCalls == {[op |-> "validate_all", variant |-> v] : v \in VariantChoices}

\* the lengths of the lists handed over
ProjectISCalls ==
    {[op |-> "IncomeStatementEngine.project", periods |-> n] : n \in 0..MaxPeriods}

CalculateCalls ==
    {[op |-> "WorkingCapitalEngine.calculate", periods |-> n, revenues |-> rv,
      cogs_list |-> cg] :
        n \in 0..MaxPeriods, rv \in 0..MaxPeriods, cg \in 0..MaxPeriods}

GenerateCalls ==
    {[op |-> "CashFlowEngine.generate", income_statements |-> n,
      working_capital_changes |-> ch] :
        n \in 0..MaxPeriods, ch \in 0..MaxPeriods}

ProjectBSCalls ==
    {[op |-> "BalanceSheetEngine.project", periods |-> n,
      income_statements |-> iss, working_capital_list |-> wcl,
      cash_flow_statements |-> cfs] :
        n \in 0..MaxPeriods, iss \in 0..MaxPeriods, wcl \in 0..MaxPeriods,
        cfs \in 0..MaxPeriods}

\* ------------------------------------------------------------ state machine
\* nothing runs concurrently, no driver and no ticker tester, and the
\* scenario name is given as the constructor stores it
Apart ==
    /\ runs = <<>>
    /\ diagnostics = None
    /\ outputs = <<>>
    /\ progress = None
    /\ scenario_tag = None

InitWith(p) ==
    /\ prec = p
    /\ raw_assumptions \in AssumptionChoices \cup DirectChoices
    /\ scenario_name \in ScenarioChoices
    /\ historical_data \in HistoricalChoices(p)
    /\ periods \in PeriodChoices
    /\ prior_period_revenue \in OverrideChoices(p)
    /\ assumptions = None
    /\ scenario_assumptions = None
    /\ income_statements = <<>>
    /\ working_capital_list = <<>>
    /\ working_capital_changes = <<>>
    /\ cash_flow_statements = <<>>
    /\ balance_sheets = <<>>
    /\ pc = "load"
    /\ error = "none"
    /\ via_loader = (raw_assumptions \in AssumptionChoices)
    /\ prev_scenario = "none"
    /\ call = NoCall
    /\ ret = None
    /\ Apart

Init == InitWith(0)
InitFP == InitWith(MantBits)

inputs == <<prec, raw_assumptions, scenario_name, historical_data, periods,
            prior_period_revenue>>
fixed == <<prec, raw_assumptions, historical_data, periods, prior_period_revenue>>

\* AssumptionLoader.load
Load ==
    /\ pc = "load"
    /\ via_loader
    /\ \E loaded \in {load_json(raw_assumptions)} :
       IF validate(loaded)
       THEN /\ assumptions' = Some(loaded)
            /\ pc' = "scenario"
            /\ error' = "none"
       ELSE /\ assumptions' = None
            /\ pc' = "rejected"
            /\ error' = "ValueError"
    /\ UNCHANGED <<inputs, scenario_assumptions, income_statements,
                   working_capital_list, working_capital_changes,
                   cash_flow_statements, balance_sheets, via_loader, prev_scenario, call, ret, apart>>

\* ScenarioEngine.__init__ on a dictionary the caller built itself: the
\* constructor stores it as it is
Construct ==
    /\ pc = "load"
    /\ ~ via_loader
    /\ assumptions' = Some([k \in DOMAIN raw_assumptions |->
                               Rnd(prec, raw_assumptions[k])])
    /\ pc' = "scenario"
    /\ UNCHANGED <<inputs, error, scenario_assumptions, income_statements,
                   working_capital_list, working_capital_changes,
                   cash_flow_statements, balance_sheets, via_loader, prev_scenario, call, ret, apart>>

\* ScenarioEngine.run: scenario-specific assumptions
GetScenarioAssumptions ==
    /\ pc = "scenario"
    /\ \E r \in {ScenarioEngine_get_scenario_assumptions(Val(assumptions),
                                                        scenario_name)} :
       /\ assumptions' = Some(r.base_assumptions)
       /\ scenario_assumptions' = r.out
       /\ error' = r.err
       /\ pc' = IF r.err = "none" THEN "income" ELSE "failed"
    /\ UNCHANGED <<inputs, income_statements,
                   working_capital_list, working_capital_changes,
                   cash_flow_statements, balance_sheets, via_loader, prev_scenario, call, ret, apart>>

\* ScenarioEngine.run: is_engine.project
ProjectIncome ==
    /\ pc = "income"
    /\ \E r \in {IS_project(Val(scenario_assumptions), historical_data, periods,
                           prior_period_revenue)} :
       /\ income_statements' = r.out
       /\ error' = r.err
       /\ pc' = IF r.err = "none" THEN "wc" ELSE "failed"
    /\ UNCHANGED <<inputs, assumptions, scenario_assumptions,
                   working_capital_list, working_capital_changes,
                   cash_flow_statements, balance_sheets,
                   via_loader, prev_scenario, call, ret, apart>>

\* ScenarioEngine.run: wc_engine.calculate on the projected revenues and COGS
CalculateWorkingCapital ==
    /\ pc = "wc"
    /\ \E r \in {WC_calculate(Val(scenario_assumptions), periods,
                             revenues_of(income_statements),
                             cogs_of(income_statements))} :
       /\ working_capital_list' = r.out
       /\ error' = r.err
       /\ pc' = IF r.err = "none" THEN "changes" ELSE "failed"
    /\ UNCHANGED <<inputs, assumptions, scenario_assumptions, income_statements,
                   working_capital_changes, cash_flow_statements, balance_sheets,
                   via_loader, prev_scenario, call, ret, apart>>

\* ScenarioEngine.run: wc_engine.calculate_changes
CalculateChanges ==
    /\ pc = "changes"
    /\ working_capital_changes' = calculate_changes(working_capital_list)
    /\ pc' = "cf"
    /\ UNCHANGED <<inputs, assumptions, scenario_assumptions, error,
                   income_statements, working_capital_list,
                   cash_flow_statements, balance_sheets,
                   via_loader, prev_scenario, call, ret, apart>>

\* ScenarioEngine.run: prior cash lookup and cf_engine.generate
GenerateCashFlow ==
    /\ pc = "cf"
    /\ \E r \in {CF_generate(Val(scenario_assumptions), income_statements,
                            working_capital_changes,
                            prior_cash_of(historical_data))} :
       /\ cash_flow_statements' = r.out
       /\ error' = r.err
       /\ pc' = IF r.err = "none" THEN "bs" ELSE "failed"
    /\ UNCHANGED <<inputs, assumptions, scenario_assumptions, income_statements,
                   working_capital_list, working_capital_changes, balance_sheets,
                   via_loader, prev_scenario, call, ret, apart>>

\* ScenarioEngine.run: starting balance sheet and bs_engine.project
ProjectBalanceSheet ==
    /\ pc = "bs"
    /\ \E r \in {run_balance_sheets(historical_data, periods, income_statements,
                                   working_capital_list, cash_flow_statements)} :
       /\ balance_sheets' = r.out
       /\ error' = r.err
       /\ pc' = IF r.err = "none" THEN "done" ELSE "failed"
    /\ UNCHANGED <<inputs, assumptions, scenario_assumptions, income_statements,
                   working_capital_list, working_capital_changes,
                   cash_flow_statements,
                   via_loader, prev_scenario, call, ret, apart>>

\* the caller builds another ScenarioEngine on the same assumptions
\* dictionary and history, for a scenario of its choice; prev_scenario
\* remembers the scenario of the run before
NewRun ==
    /\ pc = "done"
    /\ prev_scenario' = scenario_name
    /\ scenario_name' \in ScenarioChoices
    /\ scenario_assumptions' = None
    /\ income_statements' = <<>>
    /\ working_capital_list' = <<>>
    /\ working_capital_changes' = <<>>
    /\ cash_flow_statements' = <<>>
    /\ balance_sheets' = <<>>
    /\ error' = "none"
    /\ pc' = "scenario"
    /\ UNCHANGED <<fixed, assumptions, via_loader, call, ret, apart>>

Next ==
    \/ Load
    \/ Construct
    \/ NewRun
    \/ GetScenarioAssumptions
    \/ ProjectIncome
    \/ CalculateWorkingCapital
    \/ CalculateChanges
    \/ GenerateCashFlow
    \/ ProjectBalanceSheet

Spec == Init /\ [][Next]_vars
SpecFP == InitFP /\ [][Next]_vars

\* ------------------------------------------------- single calls by a caller
\* A caller builds a ScenarioEngine on a dictionary of its own, runs it, and
\* then calls one operation once on arguments of its making: call holds the
\* operation and what was done to the arguments, ret the arguments and what
\* the call returned.
InitCallWith(p) ==
    /\ prec = p
    /\ raw_assumptions \in
           RefAssumptions \cup {Without(Friendly, key) : key \in REQUIRED_ASSUMPTIONS}
    /\ scenario_name \in ScenarioChoices
    /\ historical_data \in {RefHistory, NoBalanceSheet}
    /\ periods \in {<<>>, RefPeriods}
    /\ prior_period_revenue = None
    /\ assumptions = None
    /\ scenario_assumptions = None
    /\ income_statements = <<>>
    /\ working_capital_list = <<>>
    /\ working_capital_changes = <<>>
    /\ cash_flow_statements = <<>>
    /\ balance_sheets = <<>>
    /\ pc = "load"
    /\ error = "none"
    /\ via_loader = FALSE
    /\ prev_scenario = "none"
    /\ call = NoCall
    /\ ret = None
    /\ Apart

InitCall == InitCallWith(0)
InitCallFP == InitCallWith(MantBits)

Return(c, args, value) ==
    /\ call' = c
    /\ ret' = Some([args |-> args, value |-> value])
    /\ pc' = "returned"
    /\ UNCHANGED <<inputs, assumptions, error, scenario_assumptions,
                   income_statements, working_capital_list,
                   working_capital_changes, cash_flow_statements,
                   balance_sheets, via_loader, prev_scenario, apart>>

\* ModelValidator.validate_all(results) on the ModelResults of the run,
\* altered by the caller; untampered is the ModelResults as returned
CallValidateAll ==
    /\ pc = "done"
    /\ \E c \in ValidateCalls :
       \E r \in {ModelResults(periods, income_statements, balance_sheets,
                              cash_flow_statements)} :
       \E v \in {Alter(r, c.variant)} :
          Return(c, [results |-> v, untampered |-> r], validate_all(v))

\* IncomeStatementEngine.project(periods)
CallProjectIS ==
    /\ pc = "done"
    /\ \E c \in ProjectISCalls :
       \E ps \in {Prefix(periods, c.periods)} :
          Return(c, [periods |-> ps],
                 IS_project(Val(scenario_assumptions), historical_data, ps, None))

\* WorkingCapitalEngine.calculate(periods, revenues, cogs_list)
CallCalculate ==
    /\ pc = "done"
    /\ \E c \in CalculateCalls :
       \E ps \in {Prefix(periods, c.periods)} :
       \E rv \in {Prefix(revenues_of(income_statements), c.revenues)} :
       \E cg \in {Prefix(cogs_of(income_statements), c.cogs_list)} :
          Return(c, [periods |-> ps, revenues |-> rv, cogs_list |-> cg],
                 WC_calculate(Val(scenario_assumptions), ps, rv, cg))

\* CashFlowEngine.generate(income_statements, working_capital_changes)
CallGenerate ==
    /\ pc = "done"
    /\ \E c \in GenerateCalls :
       \E iss \in {Prefix(income_statements, c.income_statements)} :
       \E ch \in {Prefix(working_capital_changes, c.working_capital_changes)} :
          Return(c, [income_statements |-> iss, working_capital_changes |-> ch],
                 CF_generate(Val(scenario_assumptions), iss, ch, Lit(0, 1)))

\* BalanceSheetEngine.project(periods, income_statements,
\* working_capital_list, cash_flow_statements, prior_period_bs)
CallProjectBS ==
    /\ pc = "done"
    /\ \E c \in ProjectBSCalls :
       \E ps \in {Prefix(periods, c.periods)} :
       \E iss \in {Prefix(income_statements, c.income_statements)} :
       \E wcl \in {Prefix(working_capital_list, c.working_capital_list)} :
       \E cfs \in {Prefix(cash_flow_statements, c.cash_flow_statements)} :
          Return(c, [periods |-> ps, income_statements |-> iss,
                     working_capital_list |-> wcl, cash_flow_statements |-> cfs],
                 BS_project(historical_data, ps, iss, wcl, cfs,
                            get_starting_balance_sheet(historical_data).out))

\* BalanceSheetEngine(assumptions, historical_data).get_starting_balance_sheet()
CallGetStartingBalanceSheet ==
    /\ pc = "done"
    /\ \E c \in StartingCalls :
          Return(c, [historical_data |-> c.history],
                 get_starting_balance_sheet(c.history))

\* BalanceSheetEngine(assumptions, historical_data).project(...) on the lists
\* of the run, prior_period_bs being the run's starting sheet or None
CallProjectBSFrom ==
    /\ pc = "done"
    /\ \E c \in ProjectBSFromCalls :
       \E prior \in {IF c.explicit
                     THEN get_starting_balance_sheet(historical_data).out
                     ELSE None} :
          Return(c, [historical_data |-> c.history, periods |-> periods,
                     prior_period_bs |-> prior],
                 BS_project(c.history, periods, income_statements,
                            working_capital_list, cash_flow_statements, prior))

\* BalanceSheetEngine.project(...) on the lists of the run, prior_period_bs
\* being the run's starting sheet with its cash replaced
CallProjectBSCash ==
    /\ pc = "done"
    /\ \E c \in ProjectBSCashCalls :
       \E start \in {Val(get_starting_balance_sheet(historical_data).out)} :
       \E prior \in {[start EXCEPT !.cash = Rnd(prec, c.cash)]} :
          Return(c, [periods |-> periods, prior_period_bs |-> prior],
                 BS_project(historical_data, periods, income_statements,
                            working_capital_list, cash_flow_statements,
                            Some(prior)))

\* CashFlowEngine.generate(income_statements, working_capital_changes,
\* prior_period_cash) on the lists of the run
CallGenerateCash ==
    /\ pc = "done"
    /\ \E c \in GenerateCashCalls :
          Return(c, [prior_period_cash |-> Rnd(prec, c.prior_period_cash)],
                 CF_generate(Val(scenario_assumptions), income_statements,
                             working_capital_changes,
                             Rnd(prec, c.prior_period_cash)))

NextCall ==
    \/ Construct
    \/ GetScenarioAssumptions
    \/ ProjectIncome
    \/ CalculateWorkingCapital
    \/ CalculateChanges
    \/ GenerateCashFlow
    \/ ProjectBalanceSheet
    \/ CallValidateAll
    \/ CallProjectIS
    \/ CallCalculate
    \/ CallGenerate
    \/ CallProjectBS
    \/ CallGetStartingBalanceSheet
    \/ CallProjectBSFrom
    \/ CallProjectBSCash
    \/ CallGenerateCash

SpecCall == InitCall /\ [][NextCall]_vars
SpecCallFP == InitCallFP /\ [][NextCall]_vars

\* where a run goes after a call that may raise
Goes(err, to) == IF err = "none" THEN to ELSE "failed"

\* ------------------------------------------------------ period generation
\* A period tag is a string, here the sequence of its characters.
DigitChar == <<"0", "1", "2", "3", "4", "5", "6", "7", "8", "9">>
IsDigit(c) == \E d \in 1..10 : DigitChar[d] = c
DigitValue(c) == (CHOOSE d \in 1..10 : DigitChar[d] = c) - 1

\* f"{n}" for an integer n >= 0
RECURSIVE str_of(_)
str_of(n) ==
    IF n < 10 THEN <<DigitChar[n + 1]>>
    ELSE str_of(n \div 10) \o <<DigitChar[(n % 10) + 1]>>

\* int(s) for a string of decimal digits: [err, out]; any other string the
\* inputs hold (empty, or with a letter) is a ValueError
RECURSIVE int_from(_, _, _)
int_from(s, i, acc) ==
    IF i > Len(s) THEN [err |-> "none", out |-> acc]
    ELSE IF ~ IsDigit(s[i]) THEN [err |-> "ValueError", out |-> 0]
    ELSE int_from(s, i + 1, 10 * acc + DigitValue(s[i]))

int_of(s) ==
    IF s = <<>> THEN [err |-> "ValueError", out |-> 0] ELSE int_from(s, 1, 0)

\* the position of the first "-Q" in s at or after i, 0 if there is none
RECURSIVE find_Q(_, _)
find_Q(s, i) ==
    IF i + 1 > Len(s) THEN 0
    ELSE IF s[i] = "-" /\ s[i + 1] = "Q" THEN i
    ELSE find_Q(s, i + 1)

\* s.split("-Q")
RECURSIVE split_Q(_)
split_Q(s) ==
    With(find_Q(s, 1), LAMBDA k :
        IF k = 0 THEN <<s>>
        ELSE <<SubSeq(s, 1, k - 1)>> \o split_Q(SubSeq(s, k + 2, Len(s))))

\* variant: the year rolls over when the quarter reaches 4
RECURSIVE quarters_from_early(_, _, _)
quarters_from_early(current_year, current_quarter, n) ==
    IF n = 0 THEN <<>>
    ELSE <<str_of(current_year) \o <<"-", "Q">> \o str_of(current_quarter)>>
         \o (IF current_quarter + 1 >= 4
             THEN quarters_from_early(current_year + 1, 1, n - 1)
             ELSE quarters_from_early(current_year, current_quarter + 1, n - 1))

\* lines 56-61: the loop that appends n tags from current_year,
\* current_quarter on
RECURSIVE quarters_from(_, _, _)
quarters_from(current_year, current_quarter, n) ==
    IF n = 0 THEN <<>>
    ELSE <<str_of(current_year) \o <<"-", "Q">> \o str_of(current_quarter)>>
         \o (IF current_quarter + 1 > 4
             THEN quarters_from(current_year + 1, 1, n - 1)
             ELSE quarters_from(current_year, current_quarter + 1, n - 1))

\* ScenarioEngine.run, lines 37-67, for periods = None: [err, out]
generate_periods(hist) ==
    IF IsNone(hist.income_statement)
    THEN [err |-> "ValueError", out |-> <<>>]
    ELSE
    With(Val(hist.income_statement).periods, LAMBDA ps :
    With(ps[Len(ps)], LAMBDA last_period :
        IF find_Q(last_period, 1) # 0
        THEN LET parts == split_Q(last_period)
                 year == int_of(parts[1])
                 quarter == int_of(parts[2])
             IN  IF year.err # "none" \/ quarter.err # "none"
                 THEN [err |-> "ValueError", out |-> <<>>]
                 ELSE [err |-> "none",
                       out |-> IF quarter.out + 1 > 4
                               THEN quarters_from(year.out + 1, 1, 4)
                               ELSE quarters_from(year.out, quarter.out + 1, 4)]
        ELSE [err |-> "none",
              out |-> [q \in 1..4 |-> last_period \o <<"-", "Q">> \o str_of(q)]]))

\* the last historical period the loader found: a quarter of a year, a year
\* alone, or a tag with a quarter that is not a number
YearChoices == {1000, 9999} \cup (MaxYear - 29)..MaxYear
LastPeriodChoices ==
    {str_of(y) \o <<"-", "Q">> \o str_of(q) : y \in YearChoices, q \in 0..5}
    \cup {str_of(y) : y \in YearChoices}
    \cup {str_of(y) \o <<"-", "Q", "x">> : y \in YearChoices}

PeriodHistoryChoices ==
    {[income_statement |-> Some([periods |-> <<str_of(MaxYear), last>>,
                                 data |-> ("Revenue" :> <<Q(800, 1), Q(1000, 1)>>)]),
      balance_sheet |-> Some(Balanced(0))] : last \in LastPeriodChoices}
    \cup {[income_statement |-> None, balance_sheet |-> Some(Balanced(0))]}

InitPeriods ==
    /\ prec = 0
    /\ raw_assumptions = Friendly
    /\ scenario_name = "base"
    /\ historical_data \in PeriodHistoryChoices
    /\ periods = None
    /\ prior_period_revenue = None
    /\ assumptions = Some(Friendly)
    /\ scenario_assumptions = None
    /\ income_statements = <<>>
    /\ working_capital_list = <<>>
    /\ working_capital_changes = <<>>
    /\ cash_flow_statements = <<>>
    /\ balance_sheets = <<>>
    /\ pc = "periods"
    /\ error = "none"
    /\ via_loader = FALSE
    /\ prev_scenario = "none"
    /\ call = NoCall
    /\ ret = None
    /\ Apart

\* ScenarioEngine.run(): no period list was given
GeneratePeriods ==
    /\ pc = "periods"
    /\ \E r \in {generate_periods(historical_data)} :
       /\ periods' = r.out
       /\ error' = r.err
       /\ pc' = Goes(r.err, "scenario")
    /\ UNCHANGED <<prec, raw_assumptions, scenario_name, historical_data,
                   prior_period_revenue, assumptions, scenario_assumptions,
                   income_statements, working_capital_list,
                   working_capital_changes, cash_flow_statements,
                   balance_sheets, via_loader, prev_scenario, call, ret, apart>>

NextPeriods == GeneratePeriods

SpecPeriods == InitPeriods /\ [][NextPeriods]_vars

\* ------------------------------------------------------- concurrent runs
\* A caller holds one assumptions dictionary and one HistoricalData object.
\* It runs the base, bull and bear scenarios one after the other (runs 1..3),
\* then starts the same three scenarios on three threads (runs 4..6), each a
\* ScenarioEngine of its own built on the two shared objects.  A step of a
\* run is one engine call of ScenarioEngine.run; the steps of the threads
\* interleave freely.
Alone == 1..3
Threads == 4..6
RunIds == Alone \cup Threads
ScenarioOf == <<"base", "bull", "bear", "base", "bull", "bear">>

\* ScenarioEngine.__init__ keeps references to the shared objects; the lists
\* of run are locals of the call
NewEngine(name) ==
    [scenario_name |-> name, pc |-> "scenario", error |-> "none",
     scenario_assumptions |-> None, income_statements |-> <<>>,
     working_capital_list |-> <<>>, working_capital_changes |-> <<>>,
     cash_flow_statements |-> <<>>, balance_sheets |-> <<>>]

Finished(r) == r.pc \in {"returned", "failed"}

ParAssumptions == RefAssumptions \cup {Without(Friendly, "gross_margin")}

InitPar ==
    /\ prec = 0
    /\ raw_assumptions \in ParAssumptions
    /\ assumptions = Some(raw_assumptions)
    /\ historical_data = RefHistory
    /\ periods = RefPeriods
    /\ prior_period_revenue = None
    /\ scenario_name = "base"
    /\ scenario_assumptions = None
    /\ income_statements = <<>>
    /\ working_capital_list = <<>>
    /\ working_capital_changes = <<>>
    /\ cash_flow_statements = <<>>
    /\ balance_sheets = <<>>
    /\ pc = "threads"
    /\ error = "none"
    /\ via_loader = FALSE
    /\ prev_scenario = "none"
    /\ call = NoCall
    /\ ret = None
    /\ runs = [i \in RunIds |-> NewEngine(ScenarioOf[i])]
    /\ diagnostics = None
    /\ outputs = <<>>
    /\ progress = None
    /\ scenario_tag = None

\* the serial runs do not overlap, and the threads start after them
CanStep(i) ==
    /\ pc = "threads"
    /\ IF i \in Alone
       THEN \A j \in Alone \ {i} : runs[j].pc = "scenario" \/ Finished(runs[j])
       ELSE \A j \in Alone : Finished(runs[j])

\* what a step of run i leaves alone
ParFrame ==
    UNCHANGED <<inputs, pc, error, scenario_assumptions, income_statements,
                working_capital_list, working_capital_changes,
                cash_flow_statements, balance_sheets, via_loader,
                prev_scenario, call, ret, diagnostics, outputs, progress,
                scenario_tag>>

\* ScenarioEngine.run: scenario-specific assumptions, read from the shared
\* dictionary
RunGetScenarioAssumptions(i) ==
    /\ CanStep(i)
    /\ runs[i].pc = "scenario"
    /\ \E r \in {ScenarioEngine_get_scenario_assumptions(Val(assumptions),
                                                        runs[i].scenario_name)} :
       /\ assumptions' = Some(r.base_assumptions)
       /\ runs' = [runs EXCEPT ![i].scenario_assumptions = r.out,
                               ![i].error = r.err,
                               ![i].pc = Goes(r.err, "income")]
    /\ ParFrame

\* ScenarioEngine.run: is_engine.project
RunProjectIncome(i) ==
    /\ CanStep(i)
    /\ runs[i].pc = "income"
    /\ \E r \in {IS_project(Val(runs[i].scenario_assumptions), historical_data,
                           periods, None)} :
       runs' = [runs EXCEPT ![i].income_statements = r.out,
                            ![i].error = r.err,
                            ![i].pc = Goes(r.err, "wc")]
    /\ UNCHANGED assumptions
    /\ ParFrame

\* ScenarioEngine.run: wc_engine.calculate
RunCalculateWorkingCapital(i) ==
    /\ CanStep(i)
    /\ runs[i].pc = "wc"
    /\ \E r \in {WC_calculate(Val(runs[i].scenario_assumptions), periods,
                             revenues_of(runs[i].income_statements),
                             cogs_of(runs[i].income_statements))} :
       runs' = [runs EXCEPT ![i].working_capital_list = r.out,
                            ![i].error = r.err,
                            ![i].pc = Goes(r.err, "changes")]
    /\ UNCHANGED assumptions
    /\ ParFrame

\* ScenarioEngine.run: wc_engine.calculate_changes
RunCalculateChanges(i) ==
    /\ CanStep(i)
    /\ runs[i].pc = "changes"
    /\ runs' = [runs EXCEPT ![i].working_capital_changes =
                                calculate_changes(runs[i].working_capital_list),
                            ![i].pc = "cf"]
    /\ UNCHANGED assumptions
    /\ ParFrame

\* ScenarioEngine.run: prior cash lookup and cf_engine.generate
RunGenerateCashFlow(i) ==
    /\ CanStep(i)
    /\ runs[i].pc = "cf"
    /\ \E r \in {CF_generate(Val(runs[i].scenario_assumptions),
                            runs[i].income_statements,
                            runs[i].working_capital_changes,
                            prior_cash_of(historical_data))} :
       runs' = [runs EXCEPT ![i].cash_flow_statements = r.out,
                            ![i].error = r.err,
                            ![i].pc = Goes(r.err, "bs")]
    /\ UNCHANGED assumptions
    /\ ParFrame

\* ScenarioEngine.run: starting balance sheet, bs_engine.project, return
RunProjectBalanceSheet(i) ==
    /\ CanStep(i)
    /\ runs[i].pc = "bs"
    /\ \E r \in {run_balance_sheets(historical_data, periods,
                                   runs[i].income_statements,
                                   runs[i].working_capital_list,
                                   runs[i].cash_flow_statements)} :
       runs' = [runs EXCEPT ![i].balance_sheets = r.out,
                            ![i].error = r.err,
                            ![i].pc = Goes(r.err, "returned")]
    /\ UNCHANGED assumptions
    /\ ParFrame

NextPar ==
    \/ \E i \in RunIds : RunGetScenarioAssumptions(i)
    \/ \E i \in RunIds : RunProjectIncome(i)
    \/ \E i \in RunIds : RunCalculateWorkingCapital(i)
    \/ \E i \in RunIds : RunCalculateChanges(i)
    \/ \E i \in RunIds : RunGenerateCashFlow(i)
    \/ \E i \in RunIds : RunProjectBalanceSheet(i)

SpecPar == InitPar /\ [][NextPar]_vars

\* ----------------------------------------------------------------- driver
\* main: load the assumptions, run the scenario, validate, then display and
\* export.  A ValueError of the loader or of the run ends the process before
\* the validation (pc = "rejected" or "failed").
MainAssumptions ==
    {Friendly, Example,
     [Friendly EXCEPT !.opex_ratio = Q(3, 1)],
     [Friendly EXCEPT !.capex_ratio = Q(1, 1)],
     Without(Friendly, "tax_rate")}

InitMainWith(p) ==
    /\ prec = p
    /\ raw_assumptions \in MainAssumptions
    /\ scenario_name \in ScenarioChoices
    /\ historical_data \in HistoricalChoices(p)
    /\ periods \in PeriodChoices
    /\ prior_period_revenue = None
    /\ assumptions = None
    /\ scenario_assumptions = None
    /\ income_statements = <<>>
    /\ working_capital_list = <<>>
    /\ working_capital_changes = <<>>
    /\ cash_flow_statements = <<>>
    /\ balance_sheets = <<>>
    /\ pc = "load"
    /\ error = "none"
    /\ via_loader = TRUE
    /\ prev_scenario = "none"
    /\ call = NoCall
    /\ ret = None
    /\ Apart

InitMain == InitMainWith(0)
InitMainFP == InitMainWith(MantBits)

MainFrame ==
    UNCHANGED <<inputs, assumptions, scenario_assumptions, income_statements,
                working_capital_list, working_capital_changes,
                cash_flow_statements, balance_sheets, via_loader,
                prev_scenario, call, ret, runs, progress, scenario_tag>>

\* lines 275-277: diagnostics = validator.validate_all(results)
MainValidate ==
    /\ pc = "done"
    /\ \E r \in {validate_all(ModelResults(periods, income_statements,
                                           balance_sheets,
                                           cash_flow_statements))} :
       IF r.err = "none"
       THEN /\ diagnostics' = Some(r.report)
            /\ pc' = "validated"
            /\ error' = "none"
       ELSE /\ diagnostics' = None
            /\ pc' = "halted"
            /\ error' = r.err
    /\ UNCHANGED outputs
    /\ MainFrame

\* variant: the driver reports the errors and goes on
MainHalt_goes_on ==
    /\ pc = "validated"
    /\ has_errors(Val(diagnostics))
    /\ pc' = "checked"
    /\ UNCHANGED <<error, diagnostics, outputs>>
    /\ MainFrame

\* lines 279-282: if diagnostics.has_errors(): raise RuntimeError
MainHalt ==
    /\ pc = "validated"
    /\ has_errors(Val(diagnostics))
    /\ pc' = "halted"
    /\ error' = "RuntimeError"
    /\ UNCHANGED <<diagnostics, outputs>>
    /\ MainFrame

\* lines 284-290: the warnings, if any, are printed and the driver goes on
MainReport ==
    /\ pc = "validated"
    /\ ~ has_errors(Val(diagnostics))
    /\ pc' = "checked"
    /\ UNCHANGED <<error, diagnostics, outputs>>
    /\ MainFrame

\* lines 292-294: TerminalDisplay.display_all(results, scenario_name)
MainDisplay ==
    /\ pc = "checked"
    /\ outputs' = Append(outputs, "display")
    /\ pc' = "displayed"
    /\ UNCHANGED <<error, diagnostics>>
    /\ MainFrame

\* lines 296-302: exporter.export_all(results, scenario_name)
MainExport ==
    /\ pc = "displayed"
    /\ outputs' = Append(outputs, "export")
    /\ pc' = "complete"
    /\ UNCHANGED <<error, diagnostics>>
    /\ MainFrame

NextMain ==
    \/ Load
    \/ GetScenarioAssumptions
    \/ ProjectIncome
    \/ CalculateWorkingCapital
    \/ CalculateChanges
    \/ GenerateCashFlow
    \/ ProjectBalanceSheet
    \/ MainValidate
    \/ MainHalt
    \/ MainReport
    \/ MainDisplay
    \/ MainExport

\* the driver under finite-significand arithmetic
SpecMainFP == InitMainFP /\ [][NextMain]_vars

\* the driver is one sequential process: once the report is there it takes
\* its next step as long as it has one
SpecMain ==
    /\ InitMain
    /\ [][NextMain]_vars
    /\ WF_vars(MainReport)
    /\ WF_vars(MainDisplay)
    /\ WF_vars(MainExport)

\* ----------------------------------------------------------- ticker tester
\* TickerTester.run_tests: test_ticker on one ticker after the other, each
\* result handed to ProgressTracker.update.  (The pool runs test_ticker on
\* worker threads; the results are consumed, and the tracker updated under
\* its lock, one at a time.)  A status is a Python value: the strings
\* 'success', 'failed', 'observation', and False, written "False" here.
\* An error message is the set of the phrases _categorize_error looks for
\* that occur in it.
Mentions(text, phrases) == text \cap phrases # {}

\* TickerTester._categorize_error: the category
categorize_error(text) ==
    IF Mentions(text, {"not found", "quote not found", "could not find ticker",
                       "404", "no data available", "ticker not found"})
    THEN "observation"
    ELSE IF Mentions(text, {"could not find required columns", "could not fetch",
                            "may not have financial data",
                            "does not have financial data",
                            "financial data available", "no financial data"})
    THEN "observation"
    ELSE IF Mentions(text, {"no periods", "insufficient data", "no data found",
                            "all periods have less than",
                            "no periods with sufficient data"})
    THEN "observation"
    ELSE IF Mentions(text, {"zero or negative revenue", "pre-revenue",
                            "zero revenue", "cannot project from zero"})
    THEN "observation"
    ELSE IF {"missing value", "period", "incomplete data"} \subseteq text
    THEN "observation"
    ELSE IF "could not find" \in text
            /\ Mentions(text, {"columns", "data", "statement"})
    THEN "observation"
    ELSE IF Mentions(text, {"validation error", "balance sheet does not balance",
                            "model validation failed"})
    THEN "failed"
    ELSE IF "cash balance is critically negative" \in text
    THEN IF "zero revenue" \notin text THEN "failed" ELSE "observation"
    ELSE IF "failed to load" \in text
            /\ Mentions(text, {"could not find", "not found"})
    THEN "observation"
    ELSE "failed"

\* "Validation errors: " followed by the report
validation_text(report) ==
    {"validation error"}
    \cup UNION {IF report[j].message = "critically negative, zero revenue"
                THEN {"cash balance is critically negative", "zero revenue"}
                ELSE IF report[j].message = "critically negative"
                THEN {"cash balance is critically negative"}
                ELSE IF report[j].category = "Balance Sheet"
                THEN {"balance sheet does not balance"}
                ELSE {} : j \in 1..Len(report)}

\* what the loaders may raise
LoadErrorTexts ==
    {{"not found"}, {"could not fetch"}, {"failed to load"}, {}}

\* the messages of the exceptions of the run
ExceptionTexts(err) ==
    IF err = "RuntimeError" THEN {{"balance sheet does not balance"}}
    ELSE IF err = "ValueError" THEN {{}, {"no periods"}}
    ELSE {{}}

\* ProgressTracker.__init__
ProgressTracker(total) ==
    [total |-> total, completed |-> 0, successful |-> 0, failed |-> 0,
     observation |-> 0]

\* ProgressTracker.update
update(tracker, status) ==
    [tracker EXCEPT
        !.completed = @ + 1,
        !.successful = IF status = "success" THEN @ + 1 ELSE @,
        !.failed = IF status = "failed" THEN @ + 1 ELSE @,
        !.observation = IF status = "observation" THEN @ + 1 ELSE @]

TickerAssumptions ==
    {Friendly, [Friendly EXCEPT !.opex_ratio = Q(3, 1)],
     [Friendly EXCEPT !.capex_ratio = Q(1, 1)]}

InitTicker ==
    /\ prec = 0
    /\ raw_assumptions \in TickerAssumptions
    /\ assumptions = Some(raw_assumptions)
    /\ scenario_name = "base"
    /\ historical_data = None
    /\ periods = RefPeriods
    /\ prior_period_revenue = None
    /\ scenario_assumptions = None
    /\ income_statements = <<>>
    /\ working_capital_list = <<>>
    /\ working_capital_changes = <<>>
    /\ cash_flow_statements = <<>>
    /\ balance_sheets = <<>>
    /\ pc = "ticker"
    /\ error = "none"
    /\ via_loader = FALSE
    /\ prev_scenario = "none"
    /\ call = NoCall
    /\ ret = None
    /\ runs = <<>>
    /\ diagnostics = None
    /\ outputs = <<>>
    /\ progress = ProgressTracker(MaxTickers)
    /\ scenario_tag = None

TickerFrame ==
    UNCHANGED <<prec, raw_assumptions, assumptions, scenario_name, periods,
                prior_period_revenue, via_loader, prev_scenario, call, runs,
                outputs, scenario_tag>>

Tested(status, warnings) ==
    /\ ret' = Some([status |-> status, warnings |-> warnings])
    /\ pc' = "tested"

\* test_ticker, lines 266-281: the data is loaded and the last revenue
\* looked at
TickerLoad ==
    /\ pc = "ticker"
    /\ progress.completed < progress.total
    /\ \/ \E text \in LoadErrorTexts :
             /\ Tested(categorize_error(text), <<>>)
             /\ UNCHANGED historical_data
       \/ \E h \in HistoricalChoices(0) :
             /\ historical_data' = h
             /\ IF ~ IsNone(h.income_statement)
                   /\ RLe(get_value(Val(h.income_statement), "Revenue",
                                    Last(Val(h.income_statement).periods)), Zero)
                THEN Tested("False", <<>>)
                ELSE pc' = "scenario" /\ UNCHANGED ret
    /\ UNCHANGED <<error, scenario_assumptions, income_statements,
                   working_capital_list, working_capital_changes,
                   cash_flow_statements, balance_sheets, diagnostics, progress>>
    /\ TickerFrame

\* test_ticker, lines 295-313: the run returned; validation
TickerValidate ==
    /\ pc = "done"
    /\ \E r \in {validate_all(ModelResults(periods, income_statements,
                                           balance_sheets,
                                           cash_flow_statements))} :
       /\ diagnostics' = Some(r.report)
       /\ IF r.err # "none" THEN Tested(categorize_error({}), <<>>)
          ELSE IF has_errors(r.report)
          THEN Tested(categorize_error(validation_text(r.report)), <<>>)
          ELSE IF has_warnings(r.report)
          THEN Tested("success", <<"Validation warnings present">>)
          ELSE Tested("success", <<>>)
    /\ UNCHANGED <<historical_data, error, scenario_assumptions,
                   income_statements, working_capital_list,
                   working_capital_changes, cash_flow_statements,
                   balance_sheets, progress>>
    /\ TickerFrame

\* test_ticker, lines 315-336: the run raised
TickerExcept ==
    /\ pc = "failed"
    /\ \E text \in ExceptionTexts(error) :
          Tested(categorize_error(text), <<>>)
    /\ UNCHANGED <<historical_data, error, scenario_assumptions,
                   income_statements, working_capital_list,
                   working_capital_changes, cash_flow_statements,
                   balance_sheets, diagnostics, progress>>
    /\ TickerFrame

\* run_tests, lines 396-404: progress.update(ticker, status); then the next
\* result
TickerUpdate ==
    /\ pc = "tested"
    /\ progress' = update(progress, Val(ret).status)
    /\ pc' = "ticker"
    /\ ret' = None
    /\ historical_data' = None
    /\ error' = "none"
    /\ scenario_assumptions' = None
    /\ income_statements' = <<>>
    /\ working_capital_list' = <<>>
    /\ working_capital_changes' = <<>>
    /\ cash_flow_statements' = <<>>
    /\ balance_sheets' = <<>>
    /\ diagnostics' = None
    /\ TickerFrame

NextTicker ==
    \/ TickerLoad
    \/ GetScenarioAssumptions
    \/ ProjectIncome
    \/ CalculateWorkingCapital
    \/ CalculateChanges
    \/ GenerateCashFlow
    \/ ProjectBalanceSheet
    \/ TickerValidate
    \/ TickerExcept
    \/ TickerUpdate

SpecTicker == InitTicker /\ [][NextTicker]_vars

\* ----------------------------------------------------------- scenario name
\* The constructor is handed the scenario name in the caller's spelling, a
\* sequence of characters, and stores its lower-case form
\* (self.scenario_name = scenario_name.lower()).
UpperLetters == <<"A", "B", "E", "L", "R", "S", "U">>
LowerLetters == <<"a", "b", "e", "l", "r", "s", "u">>

\* str.lower on one character: a capital letter becomes its small letter,
\* any other character (small letter, digit, blank) stays
lower_char(c) ==
    IF \E k \in 1..Len(UpperLetters) : UpperLetters[k] = c
    THEN LowerLetters[CHOOSE k \in 1..Len(UpperLetters) : UpperLetters[k] = c]
    ELSE c

\* variant: the name is stored in the caller's spelling
lower_asis(s) == [i \in 1..Len(s) |-> s[i]]

\* str.lower
lower(s) == [i \in 1..Len(s) |-> lower_char(s[i])]

\* the characters of a spelling as the string the dispatch compares
RECURSIVE text_of(_)
text_of(s) == IF s = <<>> THEN "" ELSE Head(s) \o text_of(Tail(s))

\* the three names in several letter cases, the empty name, misspellings,
\* and names with a blank or a digit
TagChoices ==
    {<<"b", "u", "l", "l">>, <<"B", "U", "L", "L">>, <<"B", "u", "l", "l">>,
     <<"b", "U", "l", "L">>, <<"b", "e", "a", "r">>, <<"B", "E", "A", "R">>,
     <<"B", "e", "a", "r">>, <<"b", "E", "a", "R">>, <<"b", "a", "s", "e">>,
     <<"B", "A", "S", "E">>, <<>>, <<"b", "u", "l">>,
     <<"b", "u", "l", "l", "s">>, <<"b", "e", "r", "a">>,
     <<" ", "b", "u", "l", "l">>, <<"b", "e", "a", "r", " ">>,
     <<"B", "u", "1", "1">>}

\* after ScenarioEngine.__init__ on a name in the caller's spelling
InitTag ==
    /\ prec = 0
    /\ raw_assumptions \in AssumptionChoices \cup DirectChoices
    /\ scenario_tag \in {Some(t) : t \in TagChoices}
    /\ scenario_name = text_of(lower(Val(scenario_tag)))
    /\ historical_data = RefHistory
    /\ periods = RefPeriods
    /\ prior_period_revenue = None
    /\ assumptions = None
    /\ scenario_assumptions = None
    /\ income_statements = <<>>
    /\ working_capital_list = <<>>
    /\ working_capital_changes = <<>>
    /\ cash_flow_statements = <<>>
    /\ balance_sheets = <<>>
    /\ pc = "load"
    /\ error = "none"
    /\ via_loader = (raw_assumptions \in AssumptionChoices)
    /\ prev_scenario = "none"
    /\ call = NoCall
    /\ ret = None
    /\ runs = <<>>
    /\ diagnostics = None
    /\ outputs = <<>>
    /\ progress = None

NextTag ==
    \/ Load
    \/ Construct
    \/ GetScenarioAssumptions

SpecTag == InitTag /\ [][NextTag]_vars

\* ---------------------------------------------------------------- claims
\* the last historical value of a balance-sheet line
HistLine(line_item) ==
    LET h == Val(historical_data.balance_sheet) IN h.data[line_item][Len(h.periods)]

\* the revenue the projection starts from: the explicit argument, else the
\* last historical revenue
StartRevenueDefined ==
    \/ ~ IsNone(prior_period_revenue)
    \/ /\ ~ IsNone(historical_data.income_statement)
       /\ Val(historical_data.income_statement).periods # <<>>
StartRevenue ==
    IF ~ IsNone(prior_period_revenue) THEN Val(prior_period_revenue)
    ELSE LET h == Val(historical_data.income_statement)
         IN  h.data["Revenue"][Len(h.periods)]

Within(x, y, tol) == RLe(RAbs(RSub(x, y)), tol)

\* C1: in every result the scenario run returns, for every tag and every
\* period, |total_assets - total_liabilities_and_equity| <= 0.01.
C1_BalanceWithinTolerance ==
    pc = "done" =>
        \A t \in 1..Len(balance_sheets) :
            Within(balance_sheets[t].total_assets,
                   balance_sheets[t].total_liabilities_and_equity, Lit(1, 100))

C1_Witness ==
    /\ pc = "done"
    /\ Len(balance_sheets) >= 2
    /\ scenario_name = "bear"
    /\ balance_sheets[2].cash # HistLine("Cash")

\* C2: the 'does not balance' RuntimeError of BalanceSheetEngine.project is
\* unreachable, whatever the inputs and the prior balance sheet.
C2_InvariantFailureUnreachable == error # "RuntimeError"

\* C3: revenue is chained: the first projected revenue is startingRevenue*(1+g),
\* every later one is the previous revenue*(1+g), g the growth rate of the
\* scenario's assumption set; nothing but revenue is carried between
\* statements (two statements with the same revenue agree on every line).
C3_RevenueChain ==
    income_statements # <<>> =>
        LET g == Val(scenario_assumptions)["revenue_growth"]
            n == Len(income_statements)
        IN  /\ income_statements[1].revenue = RMul(StartRevenue, RAdd(One, g))
            /\ \A t \in 2..n :
                  income_statements[t].revenue =
                      RMul(income_statements[t - 1].revenue, RAdd(One, g))
            /\ \A t, u \in 1..n :
                  income_statements[t].revenue = income_statements[u].revenue
                  => [income_statements[t] EXCEPT !.period = 0]
                       = [income_statements[u] EXCEPT !.period = 0]

C3_Witness ==
    /\ Len(income_statements) >= 2
    /\ scenario_name = "bull"
    /\ income_statements[2].revenue # income_statements[1].revenue

\* C4: every projected income statement follows the cascade revenue -> COGS ->
\* gross profit -> opex -> EBITDA -> depreciation -> EBIT -> interest -> EBT
\* -> tax -> net income without rounding, and prior revenue 1000 with the
\* example ratios gives 1050, 630, 420, 210, 210, 52.5, 157.5, 3.15, 154.35,
\* 38.5875, 115.7625.
ExampleCase ==
    /\ income_statements # <<>>
    /\ StartRevenue = Q(1000, 1)
    /\ LET a == Val(scenario_assumptions)
       IN  /\ a["revenue_growth"] = Q(5, 100)
           /\ a["gross_margin"] = Q(4, 10)
           /\ a["opex_ratio"] = Q(2, 10)
           /\ a["depreciation_rate"] = Q(5, 100)
           /\ a["interest_rate"] = Q(3, 100)
           /\ a["tax_rate"] = Q(25, 100)

C4_Cascade ==
    /\ \A t \in 1..Len(income_statements) :
          LET s == income_statements[t]
              a == Val(scenario_assumptions)
          IN  /\ s.cogs = RMul(s.revenue, RSub(One, a["gross_margin"]))
              /\ s.gross_profit = RSub(s.revenue, s.cogs)
              /\ s.operating_expenses = RMul(s.revenue, a["opex_ratio"])
              /\ s.ebitda = RSub(s.gross_profit, s.operating_expenses)
              /\ s.depreciation = RMul(s.revenue, a["depreciation_rate"])
              /\ s.ebit = RSub(s.ebitda, s.depreciation)
              /\ s.interest_expense =
                     RMul(RMul(s.revenue, a["interest_rate"]), Q(1, 10))
              /\ s.ebt = RSub(s.ebit, s.interest_expense)
              /\ s.tax_expense = RMul(s.ebt, a["tax_rate"])
              /\ s.net_income = RSub(s.ebt, s.tax_expense)
    /\ ExampleCase =>
          LET s == income_statements[1]
          IN  /\ s.revenue = Q(1050, 1)
              /\ s.cogs = Q(630, 1)
              /\ s.gross_profit = Q(420, 1)
              /\ s.operating_expenses = Q(210, 1)
              /\ s.ebitda = Q(210, 1)
              /\ s.depreciation = Q(525, 10)
              /\ s.ebit = Q(1575, 10)
              /\ s.interest_expense = Q(315, 100)
              /\ s.ebt = Q(15435, 100)
              /\ s.tax_expense = Q(385875, 10000)
              /\ s.net_income = Q(1157625, 10000)

C4_Witness == ExampleCase /\ Len(income_statements) = 1

\* C5: given an assumption set with the ten ratios, the projector fails with
\* ValueError and produces no statement when the starting revenue (explicit
\* argument, else last historical revenue) is zero or negative; with a
\* strictly positive starting revenue and a non-empty period list it returns
\* exactly one statement per period.
C5_StartingRevenue ==
    (/\ pc \notin {"load", "scenario", "income", "rejected"}
     /\ REQUIRED_ASSUMPTIONS \subseteq DOMAIN Val(assumptions)) =>
        /\ (StartRevenueDefined /\ RLe(StartRevenue, Zero))
              => (pc = "failed" /\ error = "ValueError" /\ income_statements = <<>>)
        /\ (StartRevenueDefined /\ RLt(Zero, StartRevenue) /\ periods # <<>>)
              => /\ Len(income_statements) = Len(periods)
                 /\ \A t \in 1..Len(periods) :
                       income_statements[t].period = periods[t]

C5_Witness ==
    /\ pc = "failed"
    /\ IsNone(prior_period_revenue)
    /\ StartRevenueDefined
    /\ StartRevenue = Zero
    /\ periods # <<>>

\* C6: the non-cash lines follow the roll-forward rules in every period:
\* receivables, inventory and payables are the period's working-capital
\* snapshot, PP&E = prior PP&E + |capex| - depreciation, retained earnings =
\* prior retained earnings + net income (period 0 being the starting balance
\* sheet); the plug touches only cash and total assets, so the liability and
\* equity totals are the sums of their lines.
C6_RollForward ==
    pc = "done" =>
        \A t \in 1..Len(balance_sheets) :
            LET b == balance_sheets[t]
                prior_ppe == IF t = 1 THEN HistLine("PP&E")
                             ELSE balance_sheets[t - 1].ppe
                prior_re == IF t = 1 THEN HistLine("Retained Earnings")
                            ELSE balance_sheets[t - 1].retained_earnings
            IN  /\ b.accounts_receivable = working_capital_list[t].accounts_receivable
                /\ b.inventory = working_capital_list[t].inventory
                /\ b.accounts_payable = working_capital_list[t].accounts_payable
                /\ b.ppe = RSub(RAdd(prior_ppe, RAbs(cash_flow_statements[t].capex)),
                                income_statements[t].depreciation)
                /\ b.retained_earnings =
                       RAdd(prior_re, income_statements[t].net_income)
                /\ b.total_liabilities = RAdd(b.accounts_payable, b.debt)
                /\ b.total_equity = RAdd(b.equity, b.retained_earnings)
                /\ b.total_liabilities_and_equity =
                       RAdd(b.total_liabilities, b.total_equity)
                /\ b.total_assets =
                       RAdd(RAdd(RAdd(b.cash, b.accounts_receivable), b.inventory),
                            b.ppe)

C6_Witness ==
    /\ pc = "done"
    /\ Len(balance_sheets) >= 2
    /\ cash_flow_statements[2].capex # Zero
    /\ balance_sheets[2].ppe # balance_sheets[1].ppe

\* C7: the financing lines of every cash flow statement are zero, hence debt
\* and equity of every projected balance sheet equal the starting balance
\* sheet's debt and equity.
C7_NoFinancing ==
    /\ \A t \in 1..Len(cash_flow_statements) :
          /\ cash_flow_statements[t].debt_issuance = Zero
          /\ cash_flow_statements[t].debt_repayment = Zero
          /\ cash_flow_statements[t].financing_cash_flow = Zero
    /\ pc = "done" =>
          \A t \in 1..Len(balance_sheets) :
              /\ balance_sheets[t].debt = HistLine("Debt")
              /\ balance_sheets[t].equity = HistLine("Equity")

C7_Witness ==
    /\ pc = "done"
    /\ Len(balance_sheets) >= 2
    /\ balance_sheets[2].debt # Zero
    /\ balance_sheets[2].retained_earnings # HistLine("Retained Earnings")

\* C8: indirect method, per period: operating cash flow = net income +
\* depreciation - increase in receivables - increase in inventory + increase
\* in payables (the deltas of that period), investing cash flow = capex, net
\* change in cash = operating + investing + financing cash flow.
C8_IndirectMethod ==
    \A t \in 1..Len(cash_flow_statements) :
        LET c == cash_flow_statements[t]
            s == income_statements[t]
            w == working_capital_changes[t]
        IN  /\ c.operating_cash_flow =
                   RAdd(RSub(RSub(RAdd(s.net_income, s.depreciation),
                                  w.change_in_ar), w.change_in_inventory),
                        w.change_in_ap)
            /\ c.investing_cash_flow = c.capex
            /\ c.net_change_in_cash =
                   RAdd(RAdd(c.operating_cash_flow, c.investing_cash_flow),
                        c.financing_cash_flow)

C8_Witness ==
    /\ Len(cash_flow_statements) >= 2
    /\ working_capital_changes[2].change_in_ar # Zero
    /\ working_capital_changes[2].change_in_ap # Zero
    /\ working_capital_changes[2].change_in_ap # working_capital_changes[2].change_in_ar

\* C9: for every assumption set the loader accepts (via_loader) and every period, capex =
\* -revenue * capexRatio and capex <= 0 (an outflow).
C9_CapexIsOutflow ==
    via_loader =>
    \A t \in 1..Len(cash_flow_statements) :
        /\ cash_flow_statements[t].capex =
               RNeg(RMul(income_statements[t].revenue,
                         Val(scenario_assumptions)["capex_ratio"]))
        /\ RLe(cash_flow_statements[t].capex, Zero)

\* C10: per period, net income and depreciation on the cash flow statement
\* equal those on the income statement within 0.01.
C10_CrossStatement ==
    \A t \in 1..Len(cash_flow_statements) :
        /\ cash_flow_statements[t].period = income_statements[t].period
        /\ Within(cash_flow_statements[t].net_income,
                  income_statements[t].net_income, Q(1, 100))
        /\ Within(cash_flow_statements[t].depreciation,
                  income_statements[t].depreciation, Q(1, 100))

C10_Witness ==
    /\ Len(cash_flow_statements) >= 2
    /\ income_statements[2].net_income # income_statements[2].ebt
    /\ income_statements[2].depreciation # Zero

\* the assumption set as the caller supplied it
Original == load_json(raw_assumptions)

\* C11: every working-capital snapshot is receivables = revenue*(dso/365),
\* inventory = COGS*(dio/365), payables = COGS*(dpo/365) of its own period,
\* one snapshot per period in period order; two periods with the same revenue
\* and COGS have the same snapshot, whatever lies between them.
C11_WorkingCapitalSnapshot ==
    /\ pc \in {"changes", "cf", "bs", "done"} =>
           Len(working_capital_list) = Len(periods)
    /\ \A t \in 1..Len(working_capital_list) :
          LET w == working_capital_list[t]
              s == income_statements[t]
              a == Val(scenario_assumptions)
          IN  /\ w.period = periods[t]
              /\ w.accounts_receivable =
                     RMul(s.revenue, RDiv(a["dso"], Q(365, 1)))
              /\ w.inventory = RMul(s.cogs, RDiv(a["dio"], Q(365, 1)))
              /\ w.accounts_payable = RMul(s.cogs, RDiv(a["dpo"], Q(365, 1)))
    /\ \A t, u \in 1..Len(working_capital_list) :
          (/\ income_statements[t].revenue = income_statements[u].revenue
           /\ income_statements[t].cogs = income_statements[u].cogs)
          => [working_capital_list[t] EXCEPT !.period = 0]
               = [working_capital_list[u] EXCEPT !.period = 0]

C11_Witness ==
    /\ Len(working_capital_list) >= 2
    /\ scenario_name = "bear"
    /\ working_capital_list[2].accounts_receivable
           # working_capital_list[1].accounts_receivable
    /\ working_capital_list[2].inventory # working_capital_list[2].accounts_payable

RECURSIVE SumOfChanges(_, _, _)
SumOfChanges(changes, key, i) ==
    IF i = 0 THEN Zero ELSE RAdd(SumOfChanges(changes, key, i - 1), changes[i][key])

\* C12: calculate_changes returns one delta record per snapshot, in order;
\* the first period's three deltas are zero whatever the historical ending
\* balances are; every later delta is the period's snapshot value minus the
\* preceding period's; so the deltas add up to last snapshot minus first.
C12_Changes ==
    pc \in {"cf", "bs", "done"} =>
        LET w == working_capital_list
            c == working_capital_changes
            n == Len(w)
        IN  /\ Len(c) = n
            /\ \A t \in 1..n : c[t].period = w[t].period
            /\ c[1].change_in_ar = Zero
            /\ c[1].change_in_inventory = Zero
            /\ c[1].change_in_ap = Zero
            /\ \A t \in 2..n :
                  /\ c[t].change_in_ar =
                         RSub(w[t].accounts_receivable, w[t - 1].accounts_receivable)
                  /\ c[t].change_in_inventory =
                         RSub(w[t].inventory, w[t - 1].inventory)
                  /\ c[t].change_in_ap =
                         RSub(w[t].accounts_payable, w[t - 1].accounts_payable)
            /\ SumOfChanges(c, "change_in_ar", n) =
                   RSub(w[n].accounts_receivable, w[1].accounts_receivable)
            /\ SumOfChanges(c, "change_in_inventory", n) =
                   RSub(w[n].inventory, w[1].inventory)
            /\ SumOfChanges(c, "change_in_ap", n) =
                   RSub(w[n].accounts_payable, w[1].accounts_payable)

C12_Witness ==
    /\ pc = "cf"
    /\ Len(working_capital_changes) >= 2
    /\ ~ IsNone(historical_data.balance_sheet)
    /\ HistLine("Accounts Receivable") # working_capital_list[1].accounts_receivable
    /\ working_capital_changes[2].change_in_ar # Zero

\* C13: the scenario transform never changes the base assumption set: after
\* any run, and any sequence of runs on the same set, the base set holds the
\* ten values it was given, and a base run that follows other runs projects
\* with the original growth rate.
C13_BaseNotMutated ==
    /\ ~ IsNone(assumptions) => Val(assumptions) = Original
    /\ (prev_scenario # "none" /\ scenario_name = "base" /\ income_statements # <<>>)
          => income_statements[1].revenue =
                 RMul(StartRevenue, RAdd(One, Original["revenue_growth"]))

C13_Witness ==
    /\ prev_scenario = "bull"
    /\ scenario_name = "base"
    /\ income_statements # <<>>
    /\ Original["revenue_growth"] # Zero

\* C14: bear growth rule: with g the base growth, the bear set's growth is
\* -0.10 when g*0.5 > 0 and g*0.5 otherwise; it is never positive.
C14_BearGrowth ==
    (scenario_name = "bear" /\ ~ IsNone(scenario_assumptions)) =>
        LET halved == RMul(Original["revenue_growth"], Q(1, 2))
            growth == Val(scenario_assumptions)["revenue_growth"]
        IN  /\ RLt(Zero, halved) => growth = Q(-1, 10)
            /\ ~ RLt(Zero, halved) => growth = halved
            /\ RLe(growth, Zero)

C14_Witness ==
    /\ scenario_name = "bear"
    /\ ~ IsNone(scenario_assumptions)
    /\ RLt(Zero, Original["revenue_growth"])
    /\ Val(scenario_assumptions)["revenue_growth"] = Q(-1, 10)

\* C15: the transform changes only the listed ratios.  base: the result equals
\* the input.  bull: growth 1.5x, grossMargin min(1.1x, 0.9), opexRatio 0.95x,
\* the other seven unchanged.  bear: grossMargin 0.8x, opexRatio 1.1x, dso
\* 1.2x, dpo 0.9x (and the growth rule); dio, capexRatio, depreciationRate,
\* taxRate and interestRate unchanged.
Same(out, base, keys) ==
    /\ DOMAIN out = DOMAIN base
    /\ \A k \in keys \cap DOMAIN base : out[k] = base[k]

C15_TransformFrame ==
    ~ IsNone(scenario_assumptions) =>
        LET out == Val(scenario_assumptions)
            base == Original
        IN  /\ scenario_name = "base" => out = base
            /\ scenario_name = "bull" =>
                  /\ out["revenue_growth"] = RMul(base["revenue_growth"], Q(3, 2))
                  /\ out["gross_margin"] =
                         RMin(RMul(base["gross_margin"], Q(11, 10)), Q(9, 10))
                  /\ out["opex_ratio"] = RMul(base["opex_ratio"], Q(95, 100))
                  /\ Same(out, base, {"dso", "dio", "dpo", "capex_ratio",
                                      "depreciation_rate", "tax_rate",
                                      "interest_rate"})
            /\ scenario_name = "bear" =>
                  /\ out["gross_margin"] = RMul(base["gross_margin"], Q(8, 10))
                  /\ out["opex_ratio"] = RMul(base["opex_ratio"], Q(11, 10))
                  /\ out["dso"] = RMul(base["dso"], Q(12, 10))
                  /\ out["dpo"] = RMul(base["dpo"], Q(9, 10))
                  /\ Same(out, base, {"dio", "capex_ratio", "depreciation_rate",
                                      "tax_rate", "interest_rate"})

C15_Witness ==
    /\ scenario_name = "bull"
    /\ ~ IsNone(scenario_assumptions)
    /\ RLt(Q(9, 10), RMul(Original["gross_margin"], Q(11, 10)))
    /\ Val(scenario_assumptions)["gross_margin"] = Q(9, 10)
    /\ Val(scenario_assumptions)["dio"] # Zero

\* ------------------------------------------------- claims on the validator
Returned(op) == pc = "returned" /\ call.op = op

\* the diagnostics of a report by category and period, in report order
OfCategory(report, category) ==
    SelectSeq(report, LAMBDA d : d.category = category)
NotOfCategory(report, category) ==
    SelectSeq(report, LAMBDA d : d.category # category)
Diagnostics(report, category, period) ==
    SelectSeq(report, LAMBDA d : d.category = category /\ d.period = period)

\* C16: validate_all returns a report for every ModelResults it is given,
\* without raising, and the report holds the findings of each of the four
\* passes (balance, cash-health, margin, cross-statement identity), each as
\* that pass makes them on its own.
C16_ValidateAllTotal ==
    Returned("validate_all") =>
        LET results == Val(ret).args.results
            value == Val(ret).value
        IN  /\ value.err = "none"
            /\ value.report =
                   validate_balance_sheets(results, <<>>, 1)
                   \o validate_cash_balances(results, <<>>, 1)
                   \o validate_margins(results, <<>>, 1)
                   \o validate_logical_consistency(results, <<>>, 1).report

\* C17: the report holds exactly one error of category 'Balance Sheet' for
\* each balance sheet whose |total_assets - total_liabilities_and_equity|
\* exceeds 0.01 and none for the others; when the caller changed nothing but
\* one period's total_assets, the diagnostics of every other category are
\* those of the report on the unchanged results.
C17_BalanceCheck ==
    (Returned("validate_all") /\ Val(ret).value.err = "none") =>
        LET results == Val(ret).args.results
            report == Val(ret).value.report
        IN  /\ \A i \in 1..Len(results.balance_sheets) :
                  LET bs == results.balance_sheets[i]
                      found == Diagnostics(report, "Balance Sheet", bs.period)
                  IN  IF RLt(Q(1, 100),
                             RAbs(RSub(bs.total_assets,
                                       bs.total_liabilities_and_equity)))
                      THEN Len(found) = 1 /\ found[1].level = "error"
                      ELSE found = <<>>
            /\ call.variant.kind = "off_balance" =>
                  /\ NotOfCategory(report, "Balance Sheet") =
                        NotOfCategory(validate_all(Val(ret).args.untampered).report,
                                      "Balance Sheet")
                  /\ \A d \in {report[j] : j \in 1..Len(report)} :
                        d.category = "Balance Sheet" =>
                            d.period = results.periods[call.variant.k]

\* one balance sheet was put off balance by 5.0 and the report holds one
\* 'Balance Sheet' error, next to diagnostics of another category
C17_Witness ==
    /\ Returned("validate_all")
    /\ call.variant.kind = "off_balance"
    /\ call.variant.x = Q(5, 1)
    /\ Len(OfCategory(Val(ret).value.report, "Balance Sheet")) = 1
    /\ NotOfCategory(Val(ret).value.report, "Balance Sheet") # <<>>

C19_MarginCheck ==
    (Returned("validate_all") /\ Val(ret).value.err = "none") =>
        LET results == Val(ret).args.results
            report == Val(ret).value.report
        IN  \A i \in 1..Len(results.income_statements) :
               LET is_stmt == results.income_statements[i]
                   found == Diagnostics(report, "Margin", is_stmt.period)
                   warnings == SelectSeq(found, LAMBDA d : d.level = "warning")
                   errors == SelectSeq(found, LAMBDA d : d.level = "error")
               IN  IF is_stmt.revenue = Zero THEN found = <<>>
                   ELSE /\ Len(found) = Len(warnings) + Len(errors)
                        /\ Len(warnings) =
                              IF RLt(RDiv(is_stmt.gross_profit, is_stmt.revenue),
                                     Q(-1, 2))
                              THEN 1 ELSE 0
                        /\ Len(errors) =
                              IF RLt(RDiv(is_stmt.net_income, is_stmt.revenue),
                                     Q(-1, 1))
                              THEN 1 ELSE 0

\* a statement with a net margin below -100% and a gross margin above -50%:
\* the error stands alone
C19_Witness ==
    /\ Returned("validate_all")
    /\ call.variant.kind = "net"
    /\ call.variant.x = Q(-2, 1)
    /\ LET found == OfCategory(Val(ret).value.report, "Margin")
       IN  Len(found) = 1 /\ found[1].level = "error"

\* C20: IncomeStatementEngine.project, WorkingCapitalEngine.calculate,
\* CashFlowEngine.generate and BalanceSheetEngine.project raise ValueError,
\* with no statement built, on an empty sequence or on lists of different
\* lengths; ScenarioEngine.run on an empty period list or on assumptions
\* lacking a required key does not return a ModelResults.
ListLengths ==
    LET args == Val(ret).args IN
    IF call.op = "IncomeStatementEngine.project" THEN {Len(args.periods)}
    ELSE IF call.op = "WorkingCapitalEngine.calculate"
    THEN {Len(args.periods), Len(args.revenues), Len(args.cogs_list)}
    ELSE IF call.op = "CashFlowEngine.generate"
    THEN {Len(args.income_statements), Len(args.working_capital_changes)}
    ELSE {Len(args.periods), Len(args.income_statements),
          Len(args.working_capital_list), Len(args.cash_flow_statements)}

EngineCalls ==
    {"IncomeStatementEngine.project", "WorkingCapitalEngine.calculate",
     "CashFlowEngine.generate", "BalanceSheetEngine.project"}

C20_InputValidation ==
    /\ (pc = "returned" /\ call.op \in EngineCalls
        /\ (0 \in ListLengths \/ Cardinality(ListLengths) > 1)) =>
           /\ Val(ret).value.err = "ValueError"
           /\ Val(ret).value.out = <<>>
    /\ (periods = <<>> \/ ~ (REQUIRED_ASSUMPTIONS \subseteq DOMAIN raw_assumptions)) =>
           pc \notin {"done", "returned"}

\* calculate was handed revenues shorter than the periods and raised
C20_Witness ==
    /\ Returned("WorkingCapitalEngine.calculate")
    /\ Len(Val(ret).args.periods) = MaxPeriods
    /\ Len(Val(ret).args.revenues) = MaxPeriods - 1
    /\ Len(Val(ret).args.cogs_list) = MaxPeriods
    /\ Val(ret).value.err = "ValueError"

\* ------------------------------------------- claims on the starting state
BadHistory(h) ==
    \/ IsNone(h)
    \/ IsNone(h.balance_sheet)
    \/ Val(h.balance_sheet).periods = <<>>

\* the last value of a line of a historical statement
LastOf(stmt, line_item) == stmt.data[line_item][Len(stmt.periods)]

\* C21: get_starting_balance_sheet raises ValueError when there is no
\* historical data, no historical balance sheet, or one without periods;
\* otherwise it returns the last historical period's eight lines with the
\* totals as their sums.  project consults it only when no prior balance
\* sheet is supplied, and a run without a historical balance sheet fails
\* there, with no balance sheets.
C21_StartingBalanceSheet ==
    /\ Returned("BalanceSheetEngine.get_starting_balance_sheet") =>
          LET h == Val(ret).args.historical_data
              value == Val(ret).value
          IN  IF BadHistory(h)
              THEN value.err = "ValueError" /\ value.out = None
              ELSE /\ value.err = "none"
                   /\ LET bs == Val(value.out)
                          hist_bs == Val(h.balance_sheet)
                      IN  /\ bs.period = Last(hist_bs.periods)
                          /\ bs.cash = LastOf(hist_bs, "Cash")
                          /\ bs.accounts_receivable =
                                 LastOf(hist_bs, "Accounts Receivable")
                          /\ bs.inventory = LastOf(hist_bs, "Inventory")
                          /\ bs.ppe = LastOf(hist_bs, "PP&E")
                          /\ bs.accounts_payable = LastOf(hist_bs, "Accounts Payable")
                          /\ bs.debt = LastOf(hist_bs, "Debt")
                          /\ bs.equity = LastOf(hist_bs, "Equity")
                          /\ bs.retained_earnings =
                                 LastOf(hist_bs, "Retained Earnings")
                          /\ bs.total_assets =
                                 RAdd(RAdd(RAdd(bs.cash, bs.accounts_receivable),
                                           bs.inventory), bs.ppe)
                          /\ bs.total_liabilities = RAdd(bs.accounts_payable, bs.debt)
                          /\ bs.total_equity = RAdd(bs.equity, bs.retained_earnings)
                          /\ bs.total_liabilities_and_equity =
                                 RAdd(bs.total_liabilities, bs.total_equity)
    /\ Returned("BalanceSheetEngine.project from") =>
          LET args == Val(ret).args
              value == Val(ret).value
          IN  IF ~ IsNone(args.prior_period_bs)
              THEN value.err = "none" /\ Len(value.out) = Len(args.periods)
              ELSE BadHistory(args.historical_data) =>
                       value.err = "ValueError" /\ value.out = <<>>
    /\ IsNone(historical_data.balance_sheet) =>
          pc \notin {"done", "returned"} /\ balance_sheets = <<>>

\* project was handed a prior balance sheet and a history without a balance
\* sheet, and projected
C21_Witness ==
    /\ Returned("BalanceSheetEngine.project from")
    /\ Val(ret).args.historical_data = NoBalanceSheet
    /\ ~ IsNone(Val(ret).args.prior_period_bs)
    /\ Val(ret).value.err = "none"
    /\ Len(Val(ret).value.out) = MaxPeriods

\* a run on a history without a balance sheet stops at the balance sheets
RunWithoutBalanceSheetFails ==
    /\ IsNone(historical_data.balance_sheet)
    /\ pc = "failed"
    /\ error = "ValueError"
    /\ cash_flow_statements # <<>>

\* ------------------------------------------------ claims on concurrent runs
\* what ScenarioEngine.run hands back: the error, or the ModelResults
Outcome(r) ==
    [error |-> r.error,
     results |-> ModelResults(periods, r.income_statements, r.balance_sheets,
                              r.cash_flow_statements)]

\* C22: a scenario run on a thread, interleaved in any way with the runs of
\* the other two scenarios on the same assumptions dictionary and the same
\* historical data, ends as the run of that scenario made alone on the same
\* inputs did (same error or equal ModelResults), and at every moment the
\* shared dictionary and the shared history are as the caller built them.
C22_Isolation ==
    pc = "threads" =>
        /\ Val(assumptions) = raw_assumptions
        /\ historical_data = RefHistory
        /\ \A i \in Threads :
              Finished(runs[i]) => Outcome(runs[i]) = Outcome(runs[i - 3])

\* the bull thread returned after the bear thread had started and before the
\* base thread finished
C22_Witness ==
    /\ pc = "threads"
    /\ runs[5].pc = "returned"
    /\ runs[6].pc \notin {"scenario", "returned", "failed"}
    /\ runs[4].pc \notin {"returned", "failed"}
    /\ Len(runs[5].balance_sheets) = MaxPeriods
    /\ Outcome(runs[5]) # Outcome(runs[1])

\* ---------------------------------------------------- claims on the driver
Projected ==
    /\ Len(income_statements) = Len(periods)
    /\ Len(cash_flow_statements) = Len(periods)
    /\ Len(balance_sheets) = Len(periods)
    /\ periods # <<>>

DriverSafe ==
    /\ diagnostics # None =>
          /\ Projected
          /\ Val(diagnostics) =
                 validate_all(ModelResults(periods, income_statements,
                                           balance_sheets,
                                           cash_flow_statements)).report
    /\ outputs \in {<<>>, <<"display">>, <<"display", "export">>}
    /\ outputs # <<>> => diagnostics # None /\ ~ has_errors(Val(diagnostics))
    /\ (diagnostics # None /\ has_errors(Val(diagnostics))) =>
          /\ pc \in {"validated", "halted"}
          /\ pc = "halted" => error = "RuntimeError"

Cleared == diagnostics # None /\ ~ has_errors(Val(diagnostics))

DriverHalted ==
    /\ pc = "halted"
    /\ error = "RuntimeError"
    /\ has_errors(Val(diagnostics))
    /\ outputs = <<>>

\* ------------------------------------------- claims on period generation
\* the last historical period has the form YYYY-Qn with n in 1..4
QuarterForm(tag) ==
    /\ Len(tag) = 7
    /\ \A i \in 1..4 : IsDigit(tag[i])
    /\ tag[1] # "0"
    /\ tag[5] = "-" /\ tag[6] = "Q"
    /\ tag[7] \in {"1", "2", "3", "4"}

LastPeriod ==
    LET ps == Val(historical_data.income_statement).periods IN ps[Len(ps)]

\* the year of a tag of that form, and its quarter, counted in quarters
YearOf(tag) ==
    1000 * DigitValue(tag[1]) + 100 * DigitValue(tag[2])
    + 10 * DigitValue(tag[3]) + DigitValue(tag[4])
QuarterIndex(tag) == 4 * YearOf(tag) + DigitValue(tag[7]) - 1

\* C24: with no period list given and a last historical period YYYY-Qn,
\* n in 1..4, the run projects exactly four periods; the i-th is the i-th
\* quarter after YYYY-Qn, written <year>-Q<quarter> with the quarter in 1..4
\* and the year one more after each Q4.
C24_NextFourQuarters ==
    (pc # "periods" /\ ~ IsNone(historical_data.income_statement)
        /\ QuarterForm(LastPeriod)) =>
        /\ error = "none"
        /\ Len(periods) = 4
        /\ \A i \in 1..4 :
              LET k == QuarterIndex(LastPeriod) + i
              IN  periods[i] =
                      str_of(k \div 4) \o <<"-", "Q">> \o str_of((k % 4) + 1)

\* four periods generated from a fourth quarter: the year rolls over
C24_Witness ==
    /\ pc = "scenario"
    /\ QuarterForm(LastPeriod)
    /\ LastPeriod[7] = "4"
    /\ Len(periods) = 4
    /\ periods[1][Len(periods[1])] = "1"
    /\ periods[4][Len(periods[4])] = "4"

\* ---------------------------------------------- claims on the ticker tester
\* C25: every status test_ticker returns is 'success', 'failed' or
\* 'observation', and after any number of ProgressTracker.update calls on
\* those statuses completed = successful + failed + observation.
C25_StatusCounted ==
    /\ ret # None => Val(ret).status \in {"success", "failed", "observation"}
    /\ progress.completed =
           progress.successful + progress.failed + progress.observation

\* the statuses other than the one of the non-positive revenue are counted
StatusCountedButFalse ==
    /\ ret # None =>
          \/ Val(ret).status \in {"success", "failed", "observation"}
          \/ /\ Val(ret).status = "False"
             /\ RLe(get_value(Val(historical_data.income_statement), "Revenue",
                              Last(Val(historical_data.income_statement).periods)),
                    Zero)
    /\ progress.completed >=
           progress.successful + progress.failed + progress.observation

\* ---------------------------------------------------- claims on the cash plug
\* the cash of period t before the plug: the previous cash plus the net
\* change in cash of the cash flow statement
CashBeforePlug(t) ==
    FAdd(IF t = 1 THEN HistLine("Cash") ELSE balance_sheets[t - 1].cash,
         cash_flow_statements[t].net_change_in_cash)

\* C26: in a finished run with capex_ratio >= 0 the plug of every projected
\* period after the first is zero: the cash of the balance sheet is the cash
\* of the previous projected balance sheet plus the period's
\* net_change_in_cash.
C26_PlugZeroAfterFirst ==
    (pc = "done" /\ RLe(Zero, Val(scenario_assumptions)["capex_ratio"])) =>
        \A t \in 2..Len(balance_sheets) :
            balance_sheets[t].cash = CashBeforePlug(t)

\* the plug of a period after the first is zero whenever that period's capex
\* is an outflow
PlugZeroWhenOutflow ==
    pc = "done" =>
        \A t \in 2..Len(balance_sheets) :
            RLe(cash_flow_statements[t].capex, Zero) =>
                balance_sheets[t].cash = CashBeforePlug(t)

\* capex_ratio > 0 and a period after the first whose plug is not zero
PlugAfterNegativeRevenue ==
    /\ pc = "done"
    /\ RLt(Zero, Val(scenario_assumptions)["capex_ratio"])
    /\ Len(balance_sheets) = MaxPeriods
    /\ RLt(income_statements[3].revenue, Zero)
    /\ balance_sheets[3].cash # CashBeforePlug(3)

\* with capex_ratio < 0 the plug of a later period is not zero
PlugAfterInflow ==
    /\ pc = "done"
    /\ RLt(Val(scenario_assumptions)["capex_ratio"], Zero)
    /\ Len(balance_sheets) = MaxPeriods
    /\ balance_sheets[2].cash # CashBeforePlug(2)

\* the cash the plug leaves on a balance sheet, from its other lines
PlugCash(bs) ==
    RSub(RSub(RSub(RAdd(RAdd(RAdd(bs.accounts_payable, bs.debt), bs.equity),
                        bs.retained_earnings),
                   bs.accounts_receivable),
              bs.inventory),
         bs.ppe)

\* C27: the cash of every projected balance sheet is accounts_payable + debt
\* + equity + retained_earnings - accounts_receivable - inventory - ppe;
\* BalanceSheetEngine.project on the same lists from a prior balance sheet
\* that differs only in its cash returns the same balance sheets, and
\* CashFlowEngine.generate with another prior_period_cash returns the same
\* cash flow statements.
C27_CashIndependent ==
    /\ pc \in {"done", "returned"} =>
          \A t \in 1..Len(balance_sheets) :
              balance_sheets[t].cash = PlugCash(balance_sheets[t])
    /\ Returned("BalanceSheetEngine.project cash") =>
          Val(ret).value = [err |-> "none", out |-> balance_sheets]
    /\ Returned("CashFlowEngine.generate cash") =>
          Val(ret).value = [err |-> "none", out |-> cash_flow_statements]

\* project returned from a prior balance sheet with another cash
ProjectedFromOtherCash ==
    /\ Returned("BalanceSheetEngine.project cash")
    /\ Val(ret).args.prior_period_bs.cash # HistLine("Cash")
    /\ Val(ret).value.err = "none"
    /\ Len(Val(ret).value.out) = MaxPeriods

\* generate with another prior_period_cash returns the same statements
GenerateIgnoresPriorCash ==
    Returned("CashFlowEngine.generate cash") =>
        Val(ret).value = [err |-> "none", out |-> cash_flow_statements]

\* ------------------------------------------- claims on validated run output
\* C28: the report validate_all makes on the ModelResults of a successful
\* run holds no diagnostic of category 'Balance Sheet' and none of category
\* 'Consistency': every diagnostic is a 'Cash Balance' or a 'Margin' finding.
C28_OnlyCashAndMargin ==
    diagnostics # None =>
        \A j \in 1..Len(Val(diagnostics)) :
            Val(diagnostics)[j].category \in {"Cash Balance", "Margin"}

\* a validated run of three periods under rounding, with a finding in the
\* report
C28_Witness ==
    /\ prec = MantBits
    /\ diagnostics # None
    /\ Val(diagnostics) # <<>>
    /\ Len(balance_sheets) = MaxPeriods

\* C29: the ModelResults a run returns holds as many income statements,
\* balance sheets and cash flow statements as periods were given, and the
\* statement at position i of each list carries the tag periods[i].
C29_AlignedWithPeriods ==
    pc = "done" =>
        \E r \in {ModelResults(periods, income_statements, balance_sheets,
                               cash_flow_statements)} :
            /\ Len(r.income_statements) = Len(r.periods)
            /\ Len(r.balance_sheets) = Len(r.periods)
            /\ Len(r.cash_flow_statements) = Len(r.periods)
            /\ \A i \in 1..Len(r.periods) :
                   /\ r.income_statements[i].period = r.periods[i]
                   /\ r.balance_sheets[i].period = r.periods[i]
                   /\ r.cash_flow_statements[i].period = r.periods[i]

\* a run on tags given out of calendar order has returned
C29_Witness ==
    /\ pc = "done"
    /\ periods = <<2, 1>>
    /\ Len(balance_sheets) = 2

\* the small letter c or its capital
CaseForms(c) ==
    {c} \cup {UpperLetters[k] : k \in {j \in 1..Len(LowerLetters) : LowerLetters[j] = c}}

\* tag is word in some letter case
Spells(tag, word) ==
    /\ Len(tag) = Len(word)
    /\ \A i \in 1..Len(word) : tag[i] \in CaseForms(word[i])

\* the dispatch of a name given in the caller's spelling has returned or raised
Dispatched == scenario_tag # None /\ pc \in {"income", "failed"}

\* C30: a name that spells 'bull' or 'bear' in any letter case gets that
\* scenario's transform; every other name, the empty one and misspellings
\* included, raises nothing and gets a dictionary equal to the base one.
C30_CaseInsensitiveDispatch ==
    Dispatched =>
        LET tag == Val(scenario_tag)
            base == Val(assumptions)
        IN  IF Spells(tag, <<"b", "u", "l", "l">>)
            THEN error = "none" =>
                    /\ Val(scenario_assumptions)["opex_ratio"]
                         = FMul(base["opex_ratio"], Lit(19, 20))
                    /\ Val(scenario_assumptions)["revenue_growth"]
                         = FMul(base["revenue_growth"], Lit(3, 2))
                    /\ Val(scenario_assumptions)["dso"] = base["dso"]
            ELSE IF Spells(tag, <<"b", "e", "a", "r">>)
            THEN error = "none" =>
                    /\ Val(scenario_assumptions)["opex_ratio"]
                         = FMul(base["opex_ratio"], Lit(11, 10))
                    /\ Val(scenario_assumptions)["gross_margin"]
                         = FMul(base["gross_margin"], Lit(4, 5))
                    /\ Val(scenario_assumptions)["dso"]
                         = FMul(base["dso"], Lit(6, 5))
            ELSE /\ error = "none"
                 /\ scenario_assumptions = Some(base)

\* a name in mixed case was dispatched to its transform
C30_Witness ==
    /\ Dispatched
    /\ Val(scenario_tag) = <<"b", "E", "a", "R">>
    /\ error = "none"
    /\ scenario_assumptions # Some(Val(assumptions))

\* a misspelt name and the empty name were dispatched
C30_WitnessFallthrough ==
    /\ Dispatched
    /\ Val(scenario_tag) \in {<<>>, <<"b", "u", "l">>}
    /\ ~ via_loader
    /\ DOMAIN Val(assumptions) # DOMAIN Friendly

====
